---- MODULE Spec2Model ----
(***************************************************************************)
(* RoutesFormer: sparse-observation path reconstruction.                   *)
(*                                                                         *)
(* The module models                                                       *)
(*   - the greedy, graph-constrained decoder with anchor forcing and the   *)
(*     shortest-path stitching fallback (RoutesFormer._predict_path_argmax) *)
(*   - the sequence encoder (DataGenerator.encode_discontinuous_path)      *)
(*   - the observation simulators (prepare_discontinuous_path,             *)
(*     prepare_sparse_observations)                                        *)
(*   - the subsequence test (is_path_subsequence_of_path)                  *)
(* Link ids are 0-based as in the source; TLA+ sequences are 1-based, so   *)
(* S_path[k] of the source is S_path[k+1] here.                            *)
(***************************************************************************)
EXTENDS Integers, Sequences, FiniteSets, TLC

VARIABLES
    network,            \* the road network: edges, graph['neighbor_links_O'], graph['link_nodes_dict']
    S_path,             \* the sparse observation path S_dict['paths'][path_i]
    max_len,            \* experiment_config.max_len
    use_shortest_path,  \* RoutesFormer.use_shortest_path
    model,              \* the predictor behind self.model.predict
    tgt,                \* the committed prefix, begin token first
    s_path_idx,         \* index of the next observed link not yet forced
    current_step,       \* the loop variable of the autoregressive loop
    pc,                 \* position inside predict_path
    path_probability,   \* the result mapping, a set of [path, prob] entries
    complete_path,      \* the fallback's assembled path
    obs_i,              \* the fallback's loop variable i
    is_onehot_embedding, \* DataGenerator.is_onehot_embedding
    call,               \* the library function last called on its own ("none" before)
    args,               \* the arguments of that call
    ret,                \* what that call returned
    predicted_paths,    \* test.py: the results of the inference loop, by path index
    success_count,      \* test.py: paths with a non-empty prediction so far
    fail_count,         \* test.py: paths with an empty prediction or an exception so far
    idx                 \* test.py: the number of test paths the loop is done with

vars == << network, S_path, max_len, use_shortest_path, model, tgt, s_path_idx,
           current_step, pc, path_probability, complete_path, obs_i,
           is_onehot_embedding, call, args, ret,
           predicted_paths, success_count, fail_count, idx >>

\* the variables of predict_path's own run
decoder_vars == << tgt, s_path_idx, current_step, pc, path_probability,
                   complete_path, obs_i >>

\* the variables of a library call
call_vars == << call, args, ret >>

\* the variables of test.py's inference loop
loop_vars == << predicted_paths, success_count, fail_count, idx >>

\* the inference loop has not started
LoopNotStarted ==
    /\ predicted_paths = << >>
    /\ success_count = 0
    /\ fail_count = 0
    /\ idx = 0

(***************************************************************************)
(* Bounds of the model.                                                    *)
(***************************************************************************)
MaxSparseLen == 3   \* longest sparse observation path
MaxLen == 5         \* the full step budget max_len
MaxProb == 2        \* predictor outputs are drawn from 0..MaxProb (0: underflow to zero)
MaxSeqLen == 4      \* longest ground-truth path / searched sequence of a library call
MaxItem == 2        \* the link ids of a library call are 0..MaxItem

(***************************************************************************)
(* Helpers on sequences.                                                   *)
(***************************************************************************)
Range(s) == { s[k] : k \in 1..Len(s) }

InSeq(x, s) == \E k \in 1..Len(s) : s[k] = x

Last(s) == s[Len(s)]

SeqsUpTo(S, n) == UNION { [1..k -> S] : k \in 0..n }

NonEmptySeqsUpTo(S, n) == UNION { [1..k -> S] : k \in 1..n }

Min(S) == CHOOSE x \in S : \A y \in S : x <= y

RECURSIVE SortedSeq(_)
SortedSeq(S) == IF S = {} THEN << >> ELSE << Min(S) >> \o SortedSeq(S \ {Min(S)})

\* the elements of s at the positions I, in their order in s
Pick(s, I) == [ k \in 1..Cardinality(I) |-> s[SortedSeq(I)[k]] ]

(***************************************************************************)
(* utils.is_path_subsequence_of_path: one pass over `sequence` with the    *)
(* pointer sub_idx into `subsequence`.                                     *)
(***************************************************************************)
RECURSIVE SubIdxScan(_, _, _, _)
SubIdxScan(subsequence, sequence, k, sub_idx) ==
    IF k > Len(sequence) THEN sub_idx
    ELSE IF sub_idx < Len(subsequence) /\ sequence[k] = subsequence[sub_idx + 1]
         THEN IF sub_idx + 1 = Len(subsequence)
              THEN sub_idx + 1
              ELSE SubIdxScan(subsequence, sequence, k + 1, sub_idx + 1)
         ELSE SubIdxScan(subsequence, sequence, k + 1, sub_idx)

\* faulty variant: the order of the elements is not looked at
is_path_subsequence_of_path_Unordered(subsequence, sequence) ==
    Range(subsequence) \subseteq Range(sequence)

is_path_subsequence_of_path(subsequence, sequence) ==
    IF Len(subsequence) = 0 THEN TRUE
    ELSE SubIdxScan(subsequence, sequence, 1, 0) = Len(subsequence)

(***************************************************************************)
(* Networks.  A network is a directed graph whose edges carry the link     *)
(* ids 0..n-1, with the adjacency map and the link-to-nodes map derived    *)
(* from it.                                                                *)
(***************************************************************************)
Cycle4 == [ l \in 0..3 |-> << l, (l + 1) % 4 >> ]

\* two-way street 0<->1 with a branch 1->2 that loops back
TwoWay == (0 :> << 0, 1 >>) @@ (1 :> << 1, 0 >>) @@ (2 :> << 1, 2 >>) @@ (3 :> << 2, 1 >>)

\* a fork at node 1, a dead end at node 2, and link 3 leaving a node nothing leads to
Forked == (0 :> << 0, 1 >>) @@ (1 :> << 1, 0 >>) @@ (2 :> << 1, 2 >>) @@ (3 :> << 3, 2 >>)

Topologies == { Cycle4, TwoWay, Forked }

\* generate_sample_data.create_neighbor_links: the links leaving a link's end node
create_neighbor_links(edges) ==
    [ l \in DOMAIN edges |->
        SortedSeq({ m \in DOMAIN edges : edges[m][1] = edges[l][2] }) ]

Restrict(f, D) == [ x \in D |-> f[x] ]

\* the network object of a graph: its edges, graph['neighbor_links_O'] and
\* graph['link_nodes_dict']
NetworkOf(edges) ==
    [ edges |-> edges,
      neighbor_links_O |-> create_neighbor_links(edges),
      link_nodes_dict |-> edges ]

\* The networks a run may be given: intact, or with one link's record damaged
\* (its adjacency list emptied, its adjacency entry absent, or its nodes absent).
Networks ==
          { NetworkOf(e) : e \in Topologies }
     \cup { [ NetworkOf(e) EXCEPT !.neighbor_links_O[d] = << >> ] :
               e \in Topologies, d \in 0..3 }
     \cup { [ NetworkOf(e) EXCEPT !.neighbor_links_O =
                 Restrict(@, DOMAIN e \ {d}) ] : e \in Topologies, d \in 0..3 }
     \cup { [ NetworkOf(e) EXCEPT !.link_nodes_dict =
                 Restrict(@, DOMAIN e \ {d}) ] : e \in Topologies, d \in 0..3 }

Links == DOMAIN network.edges

Nodes == UNION { { network.edges[l][1], network.edges[l][2] } : l \in Links }

\* utils.get_num_links
get_num_links == Cardinality(DOMAIN network.edges)

\* the special tokens and their indices
tokens == << "bos", "eos", "mos", "pos" >>

token_indexs == [ t \in Range(tokens) |->
                    get_num_links + (CHOOSE k \in 1..Len(tokens) : tokens[k] = t) - 1 ]

\* faulty variant: the adjacency list is never found
neighbor_links_O_get_Missing(link) == << >>

\* neighbor_links_O.get(link, [])
neighbor_links_O_get(link) ==
    IF link \in DOMAIN network.neighbor_links_O
    THEN network.neighbor_links_O[link]
    ELSE << >>

(***************************************************************************)
(* The predictor.  "learned" is the trained model: any output vector.      *)
(* "uniform" is a stub that gives one positive value to every admissible   *)
(* candidate.                                                              *)
(***************************************************************************)
ProbLevels == 0..MaxProb

\* the step budgets tried: two that are shorter than the longest observation
\* path, and the full one
MaxLens == { 1, 2, MaxLen }

Predictors == { "learned", "uniform" }

\* "vocabulary" is the trained model again, with its output vector kept beyond
\* the candidates: a value for every link and for the end token
predict(candidates) ==
    IF model = "uniform"
    THEN { pv \in [Range(candidates) -> ProbLevels] :
             \A a \in Range(candidates), b \in Range(candidates) :
                 pv[a] > 0 /\ pv[a] = pv[b] }
    ELSE IF model = "vocabulary"
    THEN [Links \cup { token_indexs["eos"] } -> ProbLevels]
    ELSE [Range(candidates) -> ProbLevels]

(***************************************************************************)
(* One iteration of the autoregressive loop.                               *)
(***************************************************************************)
\* torch.max over predict_val[possible_neighbor_links]
MaxOf(predict_val, links) ==
    CHOOSE v \in { predict_val[links[k]] : k \in 1..Len(links) } :
        \A k \in 1..Len(links) : predict_val[links[k]] <= v

\* faulty variant: the last position holding the maximum
Argmax_Last(predict_val, links) ==
    CHOOSE k \in 1..Len(links) :
        /\ predict_val[links[k]] = MaxOf(predict_val, links)
        /\ \A j \in (k + 1)..Len(links) : predict_val[links[j]] < MaxOf(predict_val, links)

\* torch.argmax: the first position holding the maximum
Argmax(predict_val, links) ==
    CHOOSE k \in 1..Len(links) :
        /\ predict_val[links[k]] = MaxOf(predict_val, links)
        /\ \A j \in 1..(k - 1) : predict_val[links[j]] < MaxOf(predict_val, links)

\* faulty variant: gaps are never filled from the model
ModelChoice_NoPrediction(predict_val, possible_neighbor_links) ==
    [ brk |-> TRUE, link |-> -1, idx |-> s_path_idx ]

\* faulty variant: the best neighbour is committed whatever its value
ModelChoice_IgnoresSign(predict_val, possible_neighbor_links) ==
    IF Len(possible_neighbor_links) <= 0
    THEN [ brk |-> TRUE, link |-> -1, idx |-> s_path_idx ]
    ELSE [ brk |-> FALSE,
           link |-> possible_neighbor_links[Argmax(predict_val, possible_neighbor_links)],
           idx |-> s_path_idx ]

\* faulty variant: a neighbour that is itself a dead end is not committed
ModelChoice_LookAhead(predict_val, possible_neighbor_links) ==
    IF Len(possible_neighbor_links) <= 0
    THEN [ brk |-> TRUE, link |-> -1, idx |-> s_path_idx ]
    ELSE IF MaxOf(predict_val, possible_neighbor_links) <= 0
    THEN [ brk |-> TRUE, link |-> -1, idx |-> s_path_idx ]
    ELSE IF Len(neighbor_links_O_get(
                possible_neighbor_links[Argmax(predict_val, possible_neighbor_links)])) <= 0
    THEN [ brk |-> TRUE, link |-> -1, idx |-> s_path_idx ]
    ELSE [ brk |-> FALSE,
           link |-> possible_neighbor_links[Argmax(predict_val, possible_neighbor_links)],
           idx |-> s_path_idx ]

\* "directly predict from model": break on a dead end, else the best neighbour
ModelChoice(predict_val, possible_neighbor_links) ==
    IF Len(possible_neighbor_links) <= 0
    THEN [ brk |-> TRUE, link |-> -1, idx |-> s_path_idx ]
    ELSE IF MaxOf(predict_val, possible_neighbor_links) <= 0
    THEN [ brk |-> TRUE, link |-> -1, idx |-> s_path_idx ]
    ELSE [ brk |-> FALSE,
           link |-> possible_neighbor_links[Argmax(predict_val, possible_neighbor_links)],
           idx |-> s_path_idx ]

\* faulty variant: the next observed link is not forced, the model chooses
NextLink_NoAnchor(predict_val) ==
    IF Last(tgt) = token_indexs["bos"]
    THEN [ brk |-> FALSE, link |-> S_path[1], idx |-> 1 ]
    ELSE IF is_path_subsequence_of_path(S_path, tgt)
    THEN [ brk |-> FALSE, link |-> token_indexs["eos"], idx |-> s_path_idx ]
    ELSE ModelChoice(predict_val, neighbor_links_O_get(Last(tgt)))

\* faulty variant: end is committed as soon as the last observation is reached
NextLink_EndOnLast(predict_val) ==
    IF Last(tgt) = token_indexs["bos"]
    THEN [ brk |-> FALSE, link |-> S_path[1], idx |-> 1 ]
    ELSE IF Last(tgt) = Last(S_path)
    THEN [ brk |-> FALSE, link |-> token_indexs["eos"], idx |-> s_path_idx ]
    ELSE IF s_path_idx < Len(S_path)
            /\ InSeq(S_path[s_path_idx + 1], neighbor_links_O_get(Last(tgt)))
    THEN [ brk |-> FALSE, link |-> S_path[s_path_idx + 1], idx |-> s_path_idx + 1 ]
    ELSE ModelChoice(predict_val, neighbor_links_O_get(Last(tgt)))

\* faulty variant: a forced anchor does not advance s_path_idx
NextLink_StaleIndex(predict_val) ==
    IF Last(tgt) = token_indexs["bos"]
    THEN [ brk |-> FALSE, link |-> S_path[1], idx |-> 1 ]
    ELSE IF is_path_subsequence_of_path(S_path, tgt)
    THEN [ brk |-> FALSE, link |-> token_indexs["eos"], idx |-> s_path_idx ]
    ELSE IF s_path_idx < Len(S_path)
            /\ InSeq(S_path[s_path_idx + 1], neighbor_links_O_get(Last(tgt)))
    THEN [ brk |-> FALSE, link |-> S_path[s_path_idx + 1], idx |-> s_path_idx ]
    ELSE ModelChoice(predict_val, neighbor_links_O_get(Last(tgt)))

\* the body of the loop up to the end condition: the token chosen, or a break
NextLink(predict_val) ==
    IF Last(tgt) = token_indexs["bos"]
    THEN [ brk |-> FALSE, link |-> S_path[1], idx |-> 1 ]
    ELSE
      LET current_link == Last(tgt)
          possible_neighbor_links == neighbor_links_O_get(current_link)
          all_obs_included == is_path_subsequence_of_path(S_path, tgt)
      IN  IF s_path_idx < Len(S_path) /\ ~all_obs_included
          THEN IF InSeq(S_path[s_path_idx + 1], possible_neighbor_links)
               THEN [ brk |-> FALSE, link |-> S_path[s_path_idx + 1],
                      idx |-> s_path_idx + 1 ]
               ELSE ModelChoice(predict_val, possible_neighbor_links)
          ELSE IF all_obs_included
          THEN [ brk |-> FALSE, link |-> token_indexs["eos"], idx |-> s_path_idx ]
          ELSE ModelChoice(predict_val, possible_neighbor_links)

\* faulty variant: the end token is committed and the loop goes on
LeavesLoop_OnBreak(choice) == choice.brk

\* does the iteration leave the loop
LeavesLoop(choice) == choice.brk \/ choice.link = token_indexs["eos"]

\* faulty variant: one iteration too many
BudgetSpent_OffByOne(step) == step > max_len

\* "for current_step in range(self.max_len)": no iteration is left
BudgetSpent(step) == step >= max_len

\* faulty variant: "all observed links are included" writes [eos] through to the
\* adjacency list it was read from
SharedAfterStep_WriteThrough(choice) ==
    IF choice.link = token_indexs["eos"] /\ Last(tgt) \in DOMAIN network.neighbor_links_O
    THEN [ network EXCEPT !.neighbor_links_O[Last(tgt)] = << token_indexs["eos"] >> ]
    ELSE network

\* the network after an iteration: possible_neighbor_links is a copy of the
\* adjacency list and is rebound, never written in place, and nothing else of
\* the graph is assigned
SharedAfterStep(choice) == network

DecodeStep ==
    /\ pc = "decode"
    /\ ~BudgetSpent(current_step)
    /\ \E predict_val \in predict(neighbor_links_O_get(Last(tgt))) :
         LET choice == NextLink(predict_val)
         IN  /\ s_path_idx' = choice.idx
             /\ tgt' = IF LeavesLoop(choice) THEN tgt ELSE Append(tgt, choice.link)
             /\ pc' = IF LeavesLoop(choice) \/ BudgetSpent(current_step + 1)
                      THEN "extract" ELSE "decode"
             /\ network' = SharedAfterStep(choice)
    /\ current_step' = current_step + 1
    /\ UNCHANGED << S_path, max_len, use_shortest_path, model, loop_vars,
                    path_probability, complete_path, obs_i,
                    is_onehot_embedding, call_vars >>

(***************************************************************************)
(* Extraction and validation of the greedy path.                           *)
(***************************************************************************)
\* faulty variant: nothing is removed
RemoveFirst_Keep(s, x) == s

\* list.remove: drop the first occurrence of x, if any
RemoveFirst(s, x) ==
    IF ~InSeq(x, s) THEN s
    ELSE LET p == Min({ k \in 1..Len(s) : s[k] = x })
         IN  SubSeq(s, 1, p - 1) \o SubSeq(s, p + 1, Len(s))

\* faulty variant: the greedy path is returned without validation
GreedyAccepted_NoCheck(path) == TRUE

\* the greedy path is accepted when it contains the observations in order
GreedyAccepted(path) == is_path_subsequence_of_path(S_path, path)

\* faulty variant: "if" for "elif", the fallback also runs after a successful validation
RunsFallback_If(accepted) == use_shortest_path

\* faulty variant: the use_shortest_path switch is ignored
RunsFallback_Always(accepted) == ~accepted

\* "elif self.use_shortest_path": the fallback runs only after a failed validation
RunsFallback(accepted) == ~accepted /\ use_shortest_path

ExtractPath ==
    /\ pc = "extract"
    /\ LET path == RemoveFirst(tgt, token_indexs["bos"])
       IN  /\ tgt' = path
           /\ path_probability' =
                 IF GreedyAccepted(path)
                 THEN { [ path |-> path, prob |-> 1 ] }
                 ELSE path_probability
           /\ pc' = IF RunsFallback(GreedyAccepted(path)) THEN "fallback" ELSE "done"
    /\ UNCHANGED << network, S_path, max_len, use_shortest_path, model, loop_vars,
                    s_path_idx, current_step, complete_path, obs_i,
                    is_onehot_embedding, call_vars >>

(***************************************************************************)
(* The shortest-path fallback.                                             *)
(***************************************************************************)
EdgePairs == { network.edges[l] : l \in Links }

\* the walks one edge longer than those of P
ExtendPaths(P) ==
    UNION { { Append(p, e[2]) : e \in { x \in EdgePairs : x[1] = Last(p) } } : p \in P }

\* breadth-first search: the first layer of walks that reaches b
RECURSIVE FirstReaching(_, _, _)
FirstReaching(P, b, fuel) ==
    IF P = {} \/ fuel < 0 THEN {}
    ELSE IF \E p \in P : Last(p) = b
         THEN { p \in P : Last(p) = b }
         ELSE FirstReaching(ExtendPaths(P), b, fuel - 1)

\* nx.shortest_path(network, a, b): the node paths of least length; none when
\* b cannot be reached from a (NetworkXNoPath)
shortest_path(a, b) == FirstReaching({ << a >> }, b, Cardinality(Nodes))

\* faulty variant: the link is looked up against its direction
LinkBetween_Reverse(from_node, to_node) ==
    LET hits == { l \in DOMAIN network.link_nodes_dict :
                    network.link_nodes_dict[l] = << to_node, from_node >> }
    IN  IF hits = {} THEN << >> ELSE << Min(hits) >>

\* the first link of link_nodes_dict that joins from_node to to_node, if any
LinkBetween(from_node, to_node) ==
    LET hits == { l \in DOMAIN network.link_nodes_dict :
                    network.link_nodes_dict[l] = << from_node, to_node >> }
    IN  IF hits = {} THEN << >> ELSE << Min(hits) >>

\* "Convert node path to link path"
RECURSIVE NodePathLinks(_, _)
NodePathLinks(shortest_path_nodes, j) ==
    IF j > Len(shortest_path_nodes) - 1 THEN << >>
    ELSE LinkBetween(shortest_path_nodes[j], shortest_path_nodes[j + 1])
           \o NodePathLinks(shortest_path_nodes, j + 1)

\* the links put in front of curr_link for one shortest node path
GapLinks(shortest_path_nodes) == NodePathLinks(shortest_path_nodes, 1)

\* one iteration of "for i in range(len(S_path))"
FallbackStep ==
    /\ pc = "fallback"
    /\ obs_i < Len(S_path)
    /\ IF obs_i = 0
       THEN /\ complete_path' = Append(complete_path, S_path[1])
            /\ obs_i' = obs_i + 1
            /\ pc' = pc
       ELSE LET prev_link == S_path[obs_i]
                curr_link == S_path[obs_i + 1]
            IN  IF \/ prev_link \notin DOMAIN network.link_nodes_dict
                   \/ curr_link \notin DOMAIN network.link_nodes_dict
                THEN \* KeyError, caught by the outer handler
                     /\ pc' = "done"
                     /\ UNCHANGED << complete_path, obs_i >>
                ELSE LET prev_end_node == network.link_nodes_dict[prev_link][2]
                         curr_start_node == network.link_nodes_dict[curr_link][1]
                         found == IF prev_end_node # curr_start_node
                                  THEN shortest_path(prev_end_node, curr_start_node)
                                  ELSE {}
                     IN  /\ pc' = pc
                         /\ obs_i' = obs_i + 1
                         /\ IF found # {}
                            THEN \E shortest_path_nodes \in found :
                                   complete_path' = complete_path
                                       \o GapLinks(shortest_path_nodes)
                                       \o << curr_link >>
                            ELSE \* same node, or the search raised: nothing to insert
                                 complete_path' = Append(complete_path, curr_link)
    /\ UNCHANGED << network, S_path, max_len, use_shortest_path, model, loop_vars, tgt,
                    s_path_idx, current_step, path_probability,
                    is_onehot_embedding, call_vars >>

\* faulty variant: equality where the subsequence test belongs
FallbackAccepted_Exact(path) == Len(path) > 0 /\ path = S_path

\* the stitched path is accepted when it is non-empty and contains the observations
FallbackAccepted(path) ==
    Len(path) > 0 /\ is_path_subsequence_of_path(S_path, path)

\* "Validate the shortest path fallback result"
FallbackValidate ==
    /\ pc = "fallback"
    /\ obs_i >= Len(S_path)
    /\ path_probability' =
          IF FallbackAccepted(complete_path)
          THEN path_probability \cup { [ path |-> complete_path, prob |-> 1 ] }
          ELSE path_probability
    /\ pc' = "done"
    /\ UNCHANGED << network, S_path, max_len, use_shortest_path, model, loop_vars, tgt,
                    s_path_idx, current_step, complete_path, obs_i,
                    is_onehot_embedding, call_vars >>

\* the state of predict_path at its entry
DecoderStart ==
    /\ tgt = << token_indexs["bos"] >>
    /\ s_path_idx = 0
    /\ current_step = 0
    /\ pc = "decode"
    /\ path_probability = {}
    /\ complete_path = << >>
    /\ obs_i = 0

\* no library call is under way
NoCall ==
    /\ call = "none"
    /\ args = << >>
    /\ ret = << >>

Init ==
    /\ LoopNotStarted
    /\ network \in Networks
    /\ S_path \in NonEmptySeqsUpTo(Links, MaxSparseLen)
    /\ max_len \in MaxLens
    /\ use_shortest_path \in BOOLEAN
    /\ model \in Predictors
    /\ is_onehot_embedding = FALSE
    /\ DecoderStart
    /\ NoCall

Next ==
    \/ DecodeStep
    \/ ExtractPath
    \/ FallbackStep
    \/ FallbackValidate

Spec == Init /\ [][Next]_vars

(***************************************************************************)
(* The decoder with the whole output vector of the model, on networks      *)
(* whose adjacency lists are in either order.                              *)
(***************************************************************************)
Reversed(s) == [ k \in 1..Len(s) |-> s[Len(s) + 1 - k] ]

\* graph['neighbor_links_O'] as loaded: a list's order is the file's, not the ids'
ArgmaxNetworks ==
    LET Intact == { NetworkOf(e) : e \in { TwoWay, Forked } }
    IN  Intact \cup
        { [ n EXCEPT !.neighbor_links_O =
                [ l \in DOMAIN @ |-> Reversed(@[l]) ] ] : n \in Intact }

InitArgmax ==
    /\ LoopNotStarted
    /\ network \in ArgmaxNetworks
    /\ S_path \in NonEmptySeqsUpTo(Links, 2)
    /\ max_len = MaxLen
    /\ use_shortest_path \in BOOLEAN
    /\ model = "vocabulary"
    /\ is_onehot_embedding = FALSE
    /\ DecoderStart
    /\ NoCall

SpecArgmax == InitArgmax /\ [][Next]_vars

(***************************************************************************)
(* The library functions called on their own: each specification below     *)
(* draws the arguments in its initial states and applies the function.     *)
(***************************************************************************)
\* predict_path is not running
DecoderIdle ==
    /\ tgt = << >>
    /\ s_path_idx = 0
    /\ current_step = 0
    /\ pc = "idle"
    /\ path_probability = {}
    /\ complete_path = << >>
    /\ obs_i = 0

\* the link ids of a library call
Items == 0..MaxItem

\* the configuration is not read by the call
ConfigUnused ==
    /\ network = NetworkOf(Cycle4)
    /\ S_path = << 0 >>
    /\ max_len = MaxLen
    /\ use_shortest_path = FALSE
    /\ model = "learned"
    /\ is_onehot_embedding = FALSE

(***************************************************************************)
(* utils.is_path_subsequence_of_path on its own.                           *)
(***************************************************************************)
InitSubseq ==
    /\ LoopNotStarted
    /\ ConfigUnused
    /\ DecoderIdle
    /\ call = "none"
    /\ args \in [ subsequence : SeqsUpTo(Items, MaxSparseLen),
                  sequence : SeqsUpTo(Items, MaxSeqLen) ]
    /\ ret = << >>

CallIsSubsequence ==
    /\ call = "none"
    /\ call' = "is_path_subsequence_of_path"
    /\ ret' = is_path_subsequence_of_path(args.subsequence, args.sequence)
    /\ UNCHANGED << network, S_path, max_len, use_shortest_path, model, loop_vars,
                    is_onehot_embedding, decoder_vars, args >>

NextSubseq == CallIsSubsequence

SpecSubseq == InitSubseq /\ [][NextSubseq]_vars

(***************************************************************************)
(* data_loader: the observation simulators.  A mask ratio is 'OD' or a     *)
(* float, here a number of tenths.                                         *)
(***************************************************************************)
MaskRatios == { [ kind |-> "OD" ] } \cup [ kind : { "ratio" }, tenths : 0..10 ]

Max(a, b) == IF a >= b THEN a ELSE b

\* int((1 - mask_ratio) * len(path)) in double arithmetic: the exact floor, or one
\* less when the exact product is an integer that the rounded factor 1 - mask_ratio
\* falls short of (1 - 0.8 = 0.19999999999999996); the factors 1.0, 0.5 and 0.0
\* are exact
KeptCount(tenths, n) ==
    LET exact == ((10 - tenths) * n) \div 10
    IN  IF ((10 - tenths) * n) % 10 = 0 /\ tenths \notin { 0, 5, 10 } /\ exact > 0
        THEN { exact - 1, exact }
        ELSE { exact }

\* np.random.permutation(n)[:link_num]: any link_num positions, all when fewer exist
permutation_head(n, link_num) ==
    { per \in SUBSET (1..n) :
        Cardinality(per) = IF link_num <= n THEN link_num ELSE n }

\* the outcomes of prepare_discontinuous_path(path, mask_ratio)
prepare_discontinuous_path(path, mask_ratio) ==
    IF mask_ratio.kind = "OD"
    THEN { << path[1], path[Len(path)] >> }
    ELSE UNION {
           { Pick(path, { k \in 1..Len(path) :
                            (k = 1 \/ k = Len(path)) \/ k \in per }) :
               per \in permutation_head(Len(path), Max(0, kept - 2)) } :
           kept \in KeptCount(mask_ratio.tenths, Len(path)) }

\* the body of prepare_sparse_observations for one path
prepare_sparse_observations(path, avi_ids) ==
    Pick(path, { k \in 1..Len(path) :
                   k = 1 \/ k = Len(path) \/ path[k] \in avi_ids })

InitMask ==
    /\ LoopNotStarted
    /\ ConfigUnused
    /\ DecoderIdle
    /\ call = "none"
    /\ args \in [ path : NonEmptySeqsUpTo(Items, MaxSeqLen) ]
    /\ ret = << >>

CallPrepareDiscontinuousPath ==
    /\ call = "none"
    /\ \E mask_ratio \in MaskRatios :
         \E discontinuous_path \in prepare_discontinuous_path(args.path, mask_ratio) :
            /\ args' = [ path |-> args.path, mask_ratio |-> mask_ratio ]
            /\ ret' = discontinuous_path
    /\ call' = "prepare_discontinuous_path"
    /\ UNCHANGED << network, S_path, max_len, use_shortest_path, model, loop_vars,
                    is_onehot_embedding, decoder_vars >>

CallPrepareSparseObservations ==
    /\ call = "none"
    /\ \E avi_ids \in SUBSET Items :
         /\ args' = [ path |-> args.path, avi_ids |-> avi_ids ]
         /\ ret' = prepare_sparse_observations(args.path, avi_ids)
    /\ call' = "prepare_sparse_observations"
    /\ UNCHANGED << network, S_path, max_len, use_shortest_path, model, loop_vars,
                    is_onehot_embedding, decoder_vars >>

NextMask ==
    \/ CallPrepareDiscontinuousPath
    \/ CallPrepareSparseObservations

SpecMask == InitMask /\ [][NextMask]_vars

(***************************************************************************)
(* DataGenerator.encode_discontinuous_path on its own.  The argument of    *)
(* construct_point_info is a special token (a string) or a link id.        *)
(***************************************************************************)
Token(t) == [ token |-> t ]

Link(l) == [ link |-> l ]

\* np.zeros(n) with position index (0-based) set to 1
OneHot(n, index) == [ k \in 1..n |-> IF k = index + 1 THEN 1 ELSE 0 ]

\* faulty variant: a special token is given its rank in `tokens`, not its vocabulary index
construct_point_info_NoOffset(link) ==
    LET index == IF "token" \in DOMAIN link
                 THEN token_indexs[link.token] - get_num_links
                 ELSE link.link
    IN  IF is_onehot_embedding
        THEN Append(OneHot(get_num_links + Len(tokens), index), 0)
        ELSE << index, 0 >>

construct_point_info(link) ==
    LET index == IF "token" \in DOMAIN link
                 THEN token_indexs[link.token]
                 ELSE link.link
    IN  IF is_onehot_embedding
        THEN Append(OneHot(get_num_links + Len(tokens), index), 0)
        ELSE << index, 0 >>

\* faulty variant: the adjacency is indexed, and the KeyError of an unrecorded
\* link is swallowed by the handler: no mask token for that pair
RECURSIVE ObservedLinks_Indexed(_, _)
ObservedLinks_Indexed(path, k) ==
    IF k > Len(path) - 1 THEN << >>
    ELSE << construct_point_info(Link(path[k])) >>
           \o ( IF /\ path[k] \in DOMAIN network.neighbor_links_O
                   /\ ~InSeq(path[k + 1], network.neighbor_links_O[path[k]])
                THEN << construct_point_info(Token("mos")) >>
                ELSE << >> )
           \o ObservedLinks_Indexed(path, k + 1)

\* "Add observed links": every link but the last, each followed by a mask token
\* when the next observed link is not among its downstream neighbours
RECURSIVE ObservedLinks(_, _)
ObservedLinks(path, k) ==
    IF k > Len(path) - 1 THEN << >>
    ELSE << construct_point_info(Link(path[k])) >>
           \o ( IF ~InSeq(path[k + 1], neighbor_links_O_get(path[k]))
                THEN << construct_point_info(Token("mos")) >>
                ELSE << >> )
           \o ObservedLinks(path, k + 1)

\* "Pad to maximum length"
RECURSIVE PadToMaxLen(_)
PadToMaxLen(path_src) ==
    IF Len(path_src) < max_len
    THEN PadToMaxLen(Append(path_src, construct_point_info(Token("pos"))))
    ELSE path_src

encode_discontinuous_path(path) ==
    PadToMaxLen( << construct_point_info(Token("bos")) >>
                   \o ObservedLinks(path, 1)
                   \o << construct_point_info(Link(path[Len(path)])) >>
                   \o << construct_point_info(Token("eos")) >> )

\* the sequence lengths tried: from too short for any content to one more than
\* the longest content (every observed pair apart, begin and end)
EncodeLens == 1..(2 * MaxSparseLen + 2)

InitEncode ==
    /\ LoopNotStarted
    /\ network \in Networks
    /\ S_path \in NonEmptySeqsUpTo(Links, MaxSparseLen)
    /\ max_len \in EncodeLens
    /\ is_onehot_embedding \in BOOLEAN
    /\ use_shortest_path = FALSE
    /\ model = "learned"
    /\ DecoderIdle
    /\ NoCall

CallEncode ==
    /\ call = "none"
    /\ call' = "encode_discontinuous_path"
    /\ ret' = encode_discontinuous_path(S_path)
    /\ UNCHANGED << network, S_path, max_len, use_shortest_path, model, loop_vars,
                    is_onehot_embedding, decoder_vars, args >>

NextEncode == CallEncode

SpecEncode == InitEncode /\ [][NextEncode]_vars

(***************************************************************************)
(* metrics: exact values.  A metric value is a fraction num/den with       *)
(* den > 0, NaN, or an exception raised by the call.                       *)
(***************************************************************************)
Rat(n, d) == [ num |-> n, den |-> d ]

Zero == Rat(0, 1)

One == Rat(1, 1)

NaN == [ nan |-> TRUE ]

Raised(e) == [ raises |-> e ]

IsRat(v) == DOMAIN v = { "num", "den" }

RatAdd(a, b) == Rat(a.num * b.den + b.num * a.den, a.den * b.den)

RatMul(a, b) == Rat(a.num * b.num, a.den * b.den)

RatLeq(a, b) == a.num * b.den <= b.num * a.den

RatEq(a, b) == a.num * b.den = b.num * a.den

\* min(x, 1.0)
MinOne(x) == IF RatLeq(x, One) THEN x ELSE One

\* the single-hypothesis mapping {path: 1.0} that predict_path returns
Certain(path) == { [ path |-> path, prob |-> One ] }

(***************************************************************************)
(* metrics.levenshtein_distance and calculate_path_ed.                     *)
(***************************************************************************)
Min3(a, b, c) == Min({ a, b, c })

\* the two nested loops over the matrix, cell (i, j) next
RECURSIVE LevFill(_, _, _, _, _)
LevFill(matrix, path1, path2, i, j) ==
    IF i > Len(path1) THEN matrix
    ELSE IF j > Len(path2) THEN LevFill(matrix, path1, path2, i + 1, 1)
    ELSE LET d == IF path1[i] = path2[j] THEN 0 ELSE 1
             cell == Min3(matrix[i - 1][j] + 1,
                          matrix[i][j - 1] + 1,
                          matrix[i - 1][j - 1] + d)
         IN  LevFill([ matrix EXCEPT ![i][j] = cell ], path1, path2, i, j + 1)

\* faulty variant: elements are compared in place and a longer second path is
\* not charged
levenshtein_distance_InPlace(path1, path2) ==
    Cardinality({ k \in 1..Len(path1) : k > Len(path2) \/ path1[k] # path2[k] })

levenshtein_distance(path1, path2) ==
    LET matrix == [ i \in 0..Len(path1) |-> [ j \in 0..Len(path2) |-> i + j ] ]
    IN  LevFill(matrix, path1, path2, 1, 1)[Len(path1)][Len(path2)]

\* faulty variant: the normalized distances are summed without their masses
RECURSIVE EdSum_Unweighted(_, _)
EdSum_Unweighted(gt_path, entries) ==
    IF entries = {} THEN Zero
    ELSE LET e == CHOOSE x \in entries : TRUE
             ed == levenshtein_distance(gt_path, e.path)
             normalized_ed == MinOne(Rat(ed, Len(gt_path)))
         IN  RatAdd(normalized_ed, EdSum_Unweighted(gt_path, entries \ { e }))

\* "for pred_path, prob in path_probabilities.items()": the weighted sum of the
\* normalized distances; ed / len(gt_path) divides two ints
RECURSIVE EdSum(_, _)
EdSum(gt_path, entries) ==
    IF entries = {} THEN Zero
    ELSE LET e == CHOOSE x \in entries : TRUE
             ed == levenshtein_distance(gt_path, e.path)
             normalized_ed == MinOne(Rat(ed, Len(gt_path)))
         IN  RatAdd(RatMul(e.prob, normalized_ed), EdSum(gt_path, entries \ { e }))

\* faulty variant: the early return for an empty mapping is missing
calculate_path_ed_NoEarlyReturn(gt_path, path_probabilities) ==
    IF path_probabilities = {} THEN Zero
    ELSE IF Len(gt_path) = 0 THEN Raised("ZeroDivisionError")
    ELSE EdSum(gt_path, path_probabilities)

calculate_path_ed(gt_path, path_probabilities) ==
    IF Cardinality(path_probabilities) = 0 THEN One
    ELSE IF Len(gt_path) = 0 THEN Raised("ZeroDivisionError")
    ELSE EdSum(gt_path, path_probabilities)

\* the link ids of the compared paths
EdLinks == { 0, 1, 2 }

InitEditDistance ==
    /\ LoopNotStarted
    /\ ConfigUnused
    /\ DecoderIdle
    /\ call = "none"
    /\ args \in [ path1 : SeqsUpTo(EdLinks, MaxSparseLen),
                  path2 : SeqsUpTo(EdLinks, MaxSeqLen) ]
    /\ ret = << >>

CallLevenshtein ==
    /\ call = "none"
    /\ call' = "levenshtein_distance"
    /\ ret' = levenshtein_distance(args.path1, args.path2)
    /\ UNCHANGED << network, S_path, max_len, use_shortest_path, model, loop_vars,
                    is_onehot_embedding, decoder_vars, args >>

\* calculate_path_ed with ground truth path1 and the prediction {path2: 1.0}
CallCalculatePathEd ==
    /\ call = "none"
    /\ call' = "calculate_path_ed"
    /\ ret' = calculate_path_ed(args.path1, Certain(args.path2))
    /\ UNCHANGED << network, S_path, max_len, use_shortest_path, model, loop_vars,
                    is_onehot_embedding, decoder_vars, args >>

\* the masses a second hypothesis is given
Weights == { Rat(2, 5), Rat(1, 2) }

\* calculate_path_ed with ground truth path1 and two hypotheses: path2 with
\* mass prob, and the ground truth itself with the rest
CallCalculatePathEdWeighted ==
    /\ call = "none"
    /\ args.path1 # args.path2
    /\ call' = "calculate_path_ed"
    /\ \E prob \in Weights :
         /\ args' = [ path1 |-> args.path1, path2 |-> args.path2, prob |-> prob ]
         /\ ret' = calculate_path_ed(args.path1,
                       { [ path |-> args.path2, prob |-> prob ],
                         [ path |-> args.path1,
                           prob |-> Rat(prob.den - prob.num, prob.den) ] })
    /\ UNCHANGED << network, S_path, max_len, use_shortest_path, model, loop_vars,
                    is_onehot_embedding, decoder_vars >>

NextEditDistance ==
    \/ CallLevenshtein
    \/ CallCalculatePathEd
    \/ CallCalculatePathEdWeighted

SpecEditDistance == InitEditDistance /\ [][NextEditDistance]_vars

(***************************************************************************)
(* metrics: the per-path metrics and their means over a batch.  The batch  *)
(* is gt_dict['paths'] and all_path_probabilities, one entry per path      *)
(* index; sentence_bleu (nltk) is outside the repository, its score for a  *)
(* path's hypothesis is an input.                                          *)
(***************************************************************************)
\* the links, ground-truth paths and predictions of a batch
MetricLinks == { 0, 1 }

MetricPaths == SeqsUpTo(MetricLinks, Cardinality(MetricLinks))

Predictions == { {} } \cup { Certain(p) : p \in MetricPaths \ { << >> } }

BatchIdxs == { 1, 2 }

BleuScores == { Rat(1, 2), One }

\* LENGTH is a Python float or a numpy float64
NumberTypes == { "float", "float64" }

IsRaised(v) == DOMAIN v = { "raises" }

IsNaN(v) == DOMAIN v = { "nan" }

\* x += y, x * y on values: an exception ends the call, NaN is absorbing
Plus(a, b) ==
    IF IsRaised(a) THEN a
    ELSE IF IsRaised(b) THEN b
    ELSE IF IsNaN(a) \/ IsNaN(b) THEN NaN
    ELSE RatAdd(a, b)

Times(a, b) ==
    IF IsRaised(a) THEN a
    ELSE IF IsRaised(b) THEN b
    ELSE IF IsNaN(a) \/ IsNaN(b) THEN NaN
    ELSE RatMul(a, b)

\* "for pred_path, prob in path_probabilities.items()" of calculate_path_bleu
RECURSIVE BleuSum(_, _)
BleuSum(entries, bleu) ==
    IF entries = {} THEN Zero
    ELSE LET e == CHOOSE x \in entries : TRUE
         IN  RatAdd(RatMul(e.prob, bleu), BleuSum(entries \ { e }, bleu))

calculate_path_bleu(path_probabilities, bleu) ==
    IF Cardinality(path_probabilities) = 0 THEN Zero
    ELSE BleuSum(path_probabilities, bleu)

\* the sum of LENGTH over a list of links, each occurrence counted
RECURSIVE TotalLength(_, _)
TotalLength(links, LENGTH) ==
    IF links = << >> THEN 0
    ELSE LENGTH[links[1]] + TotalLength(Tail(links), LENGTH)

\* matched_length / gt_length.  gt_length stays the Python float 0.0 for an
\* empty ground truth and takes LENGTH's type otherwise; a Python float divided
\* by zero raises, a numpy float64 gives NaN for 0/0
Quotient(matched_length, gt_length, gt_path, number_type) ==
    IF gt_length # 0 THEN Rat(matched_length, gt_length)
    ELSE IF gt_path = << >> \/ number_type = "float"
    THEN Raised("ZeroDivisionError")
    ELSE NaN

\* faulty variant: a link repeated in the prediction is matched every time
RECURSIVE TllaSum_Repeated(_, _, _, _)
TllaSum_Repeated(gt_path, entries, LENGTH, number_type) ==
    IF entries = {} THEN Zero
    ELSE LET e == CHOOSE x \in entries : TRUE
             matched == SelectSeq(e.path, LAMBDA link : InSeq(link, gt_path))
             ratio == Quotient(TotalLength(matched, LENGTH),
                               TotalLength(gt_path, LENGTH), gt_path, number_type)
         IN  Plus(Times(e.prob, ratio),
                  TllaSum_Repeated(gt_path, entries \ { e }, LENGTH, number_type))

\* "for pred_path, prob in path_probabilities.items()" of calculate_path_tlla
RECURSIVE TllaSum(_, _, _, _)
TllaSum(gt_path, entries, LENGTH, number_type) ==
    IF entries = {} THEN Zero
    ELSE LET e == CHOOSE x \in entries : TRUE
             unique_pred_path == SortedSeq(Range(e.path))
             matched == SelectSeq(unique_pred_path, LAMBDA link : InSeq(link, gt_path))
             ratio == Quotient(TotalLength(matched, LENGTH),
                               TotalLength(gt_path, LENGTH), gt_path, number_type)
         IN  Plus(Times(e.prob, ratio),
                  TllaSum(gt_path, entries \ { e }, LENGTH, number_type))

calculate_path_tlla(gt_path, path_probabilities, LENGTH, number_type) ==
    IF Cardinality(path_probabilities) = 0 THEN Zero
    ELSE TllaSum(gt_path, path_probabilities, LENGTH, number_type)

\* the first exception among the per-path values, in loop order, if any
FirstRaised(values) ==
    values[Min({ k \in 1..Len(values) : IsRaised(values[k]) })]

\* the sum of a list of numbers
RECURSIVE SumValues(_)
SumValues(values) ==
    IF values = << >> THEN Zero
    ELSE RatAdd(values[1], SumValues(Tail(values)))

\* the loop of calculate_paths_*: NaN is replaced by the worst value, then
\* np.mean of the list (the worst value for an empty list)
MeanOrWorst(values, worst) ==
    IF \E k \in 1..Len(values) : IsRaised(values[k]) THEN FirstRaised(values)
    ELSE LET kept == [ k \in 1..Len(values) |->
                         IF IsNaN(values[k]) THEN worst ELSE values[k] ]
         IN  IF kept = << >> THEN worst
             ELSE RatMul(SumValues(kept), Rat(1, Len(kept)))

calculate_paths_bleu(all_path_probabilities, bleu) ==
    MeanOrWorst([ path_i \in 1..Len(all_path_probabilities) |->
                    calculate_path_bleu(all_path_probabilities[path_i], bleu[path_i]) ],
                Zero)

calculate_paths_ed(gt_paths, all_path_probabilities) ==
    MeanOrWorst([ path_i \in 1..Len(all_path_probabilities) |->
                    calculate_path_ed(gt_paths[path_i], all_path_probabilities[path_i]) ],
                One)

calculate_paths_tlla(gt_paths, all_path_probabilities, LENGTH, number_type) ==
    MeanOrWorst([ path_i \in 1..Len(all_path_probabilities) |->
                    calculate_path_tlla(gt_paths[path_i], all_path_probabilities[path_i],
                                        LENGTH, number_type) ],
                Zero)

InitMetrics ==
    /\ LoopNotStarted
    /\ ConfigUnused
    /\ DecoderIdle
    /\ call = "none"
    /\ args \in [ gt_paths : [ BatchIdxs -> MetricPaths ],
                  all_path_probabilities : [ BatchIdxs -> Predictions ],
                  bleu : [ BatchIdxs -> BleuScores ],
                  LENGTH : [ MetricLinks -> { 0, 1 } ],
                  number_type : NumberTypes,
                  path_i : { 0 } ]
    /\ \A i \in BatchIdxs : args.all_path_probabilities[i] = {} => args.bleu[i] = One
    /\ ret = << >>

\* the unchanged variables of a metric call
MetricFrame ==
    UNCHANGED << network, S_path, max_len, use_shortest_path, model, loop_vars,
                 is_onehot_embedding, decoder_vars >>

CallPathBleu ==
    /\ call = "none"
    /\ \E path_i \in BatchIdxs :
         /\ args' = [ args EXCEPT !.path_i = path_i ]
         /\ ret' = calculate_path_bleu(args.all_path_probabilities[path_i],
                                       args.bleu[path_i])
    /\ call' = "calculate_path_bleu"
    /\ MetricFrame

CallPathEd ==
    /\ call = "none"
    /\ \E path_i \in BatchIdxs :
         /\ args' = [ args EXCEPT !.path_i = path_i ]
         /\ ret' = calculate_path_ed(args.gt_paths[path_i],
                                     args.all_path_probabilities[path_i])
    /\ call' = "calculate_path_ed"
    /\ MetricFrame

CallPathTlla ==
    /\ call = "none"
    /\ \E path_i \in BatchIdxs :
         /\ args' = [ args EXCEPT !.path_i = path_i ]
         /\ ret' = calculate_path_tlla(args.gt_paths[path_i],
                                       args.all_path_probabilities[path_i],
                                       args.LENGTH, args.number_type)
    /\ call' = "calculate_path_tlla"
    /\ MetricFrame

CallPathsBleu ==
    /\ call = "none"
    /\ call' = "calculate_paths_bleu"
    /\ ret' = calculate_paths_bleu(args.all_path_probabilities, args.bleu)
    /\ UNCHANGED args
    /\ MetricFrame

CallPathsEd ==
    /\ call = "none"
    /\ call' = "calculate_paths_ed"
    /\ ret' = calculate_paths_ed(args.gt_paths, args.all_path_probabilities)
    /\ UNCHANGED args
    /\ MetricFrame

CallPathsTlla ==
    /\ call = "none"
    /\ call' = "calculate_paths_tlla"
    /\ ret' = calculate_paths_tlla(args.gt_paths, args.all_path_probabilities,
                                   args.LENGTH, args.number_type)
    /\ UNCHANGED args
    /\ MetricFrame

\* the two hypotheses of a call: the predicted paths of the batch, the first
\* with mass prob and the second with the rest
TwoHypotheses(all_path_probabilities, prob) ==
    { [ path |-> e.path, prob |-> prob ] : e \in all_path_probabilities[1] }
      \cup { [ path |-> e.path, prob |-> Rat(prob.den - prob.num, prob.den) ] :
               e \in all_path_probabilities[2] }

\* calculate_path_tlla for ground truth 1 and two different hypotheses
CallPathTllaWeighted ==
    /\ call = "none"
    /\ args.all_path_probabilities[1] # {}
    /\ args.all_path_probabilities[2] # {}
    /\ args.all_path_probabilities[1] # args.all_path_probabilities[2]
    /\ \E prob \in Weights :
         /\ args' = [ f \in DOMAIN args \cup { "prob" } |->
                        IF f = "prob" THEN prob
                        ELSE IF f = "path_i" THEN 1 ELSE args[f] ]
         /\ ret' = calculate_path_tlla(args.gt_paths[1],
                       TwoHypotheses(args.all_path_probabilities, prob),
                       args.LENGTH, args.number_type)
    /\ call' = "calculate_path_tlla, two hypotheses"
    /\ MetricFrame

NextMetrics ==
    \/ CallPathBleu
    \/ CallPathEd
    \/ CallPathTlla
    \/ CallPathTllaWeighted
    \/ CallPathsBleu
    \/ CallPathsEd
    \/ CallPathsTlla

SpecMetrics == InitMetrics /\ [][NextMetrics]_vars

(***************************************************************************)
(* metrics.js_divergence and calculate_paths_jsd, in exact arithmetic.     *)
(* A distribution is a list of whole weights over a common total; a        *)
(* divergence is the number log2(num * 2^twos / den) / scale.              *)
(***************************************************************************)
Log2Val(num, den, twos, scale) ==
    [ num |-> num, den |-> den, twos |-> twos, scale |-> scale ]

\* a ^ b, with 0 ^ 0 = 1
RECURSIVE Power(_, _)
Power(a, b) == IF b = 0 THEN 1 ELSE a * Power(a, b - 1)

\* the product of f over the keys of K
RECURSIVE Product(_, _)
Product(K, f) ==
    IF K = {} THEN 1
    ELSE LET k == CHOOSE x \in K : TRUE
         IN  f[k] * Product(K \ { k }, f)

\* the sum of f over the keys of K
RECURSIVE Total(_, _)
Total(K, f) ==
    IF K = {} THEN 0
    ELSE LET k == CHOOSE x \in K : TRUE
         IN  f[k] + Total(K \ { k }, f)

\* array / np.sum(array)
Normalize(counts) == [ weights |-> counts, total |-> Total(DOMAIN counts, counts) ]

\* the weights of a distribution over the total D
Scaled(p, D) == [ r \in DOMAIN p.weights |-> p.weights[r] * (D \div p.total) ]

\* a total that both distributions can be written over
CommonTotal(p, q) == IF p.total = q.total THEN p.total ELSE p.total * q.total

\* scipy.stats.entropy(pk, M, base=2) = sum of pk * log2(pk / M) with
\* M = sum2 / 2: log2(2^D * prod pk^pk / prod sum2^pk) / D; a term with
\* pk = 0 is 0
entropy(pk, sum2, D) ==
    Log2Val(Product(DOMAIN pk, [ r \in DOMAIN pk |-> Power(pk[r], pk[r]) ]),
            Product(DOMAIN pk, [ r \in DOMAIN pk |-> Power(sum2[r], pk[r]) ]),
            D, D)

\* 0.5 * a + 0.5 * b for two values of one scale
HalfSum(a, b) == Log2Val(a.num * b.num, a.den * b.den, a.twos + b.twos, 2 * a.scale)

\* faulty variant: the second distribution is not compared with the mixture
js_divergence_OneSided(p, q) ==
    IF p.total = 0 \/ q.total = 0 THEN NaN
    ELSE LET D == CommonTotal(p, q)
             P == Scaled(p, D)
             Q == Scaled(q, D)
             sum2 == [ r \in DOMAIN P |-> P[r] + Q[r] ]
         IN  HalfSum(entropy(P, sum2, D), entropy(P, sum2, D))

js_divergence(p, q) ==
    IF p.total = 0 \/ q.total = 0 THEN NaN
    ELSE LET D == CommonTotal(p, q)
             P == Scaled(p, D)
             Q == Scaled(q, D)
             sum2 == [ r \in DOMAIN P |-> P[r] + Q[r] ]
         IN  HalfSum(entropy(P, sum2, D), entropy(Q, sum2, D))

\* the keys of the frequency dictionaries: a route, or 'unseen'
Route(path) == [ route |-> path ]

Unseen == [ unseen |-> TRUE ]

\* the mass a path's prediction puts on a route (whole: predict_path gives 1.0)
MassOn(path_probs, route) ==
    IF \E e \in path_probs : Route(e.path) = route
    THEN (CHOOSE e \in path_probs : Route(e.path) = route).prob.num
    ELSE 0

gt_route_freq(gt_paths, route) ==
    Cardinality({ path_i \in DOMAIN gt_paths : Route(gt_paths[path_i]) = route })

pred_route_freq(all_path_probabilities, include_unseen, route) ==
    IF route = Unseen
    THEN IF include_unseen
         THEN Cardinality({ path_i \in DOMAIN all_path_probabilities :
                              all_path_probabilities[path_i] = {} })
         ELSE 0
    ELSE Total(DOMAIN all_path_probabilities,
               [ path_i \in DOMAIN all_path_probabilities |->
                   MassOn(all_path_probabilities[path_i], route) ])

\* the keys of total_route_freq
total_route_freq(gt_paths, all_path_probabilities, include_unseen) ==
         { Route(gt_paths[path_i]) : path_i \in DOMAIN gt_paths }
    \cup UNION { { Route(e.path) : e \in all_path_probabilities[path_i] } :
                   path_i \in DOMAIN all_path_probabilities }
    \cup { k \in { Unseen } :
             include_unseen /\ \E path_i \in DOMAIN all_path_probabilities :
                                  all_path_probabilities[path_i] = {} }

gt_distribution(gt_paths, all_path_probabilities, include_unseen) ==
    Normalize([ route \in total_route_freq(gt_paths, all_path_probabilities, include_unseen)
                  |-> gt_route_freq(gt_paths, route) ])

pred_distribution(gt_paths, all_path_probabilities, include_unseen) ==
    Normalize([ route \in total_route_freq(gt_paths, all_path_probabilities, include_unseen)
                  |-> pred_route_freq(all_path_probabilities, include_unseen, route) ])

calculate_paths_jsd(gt_paths, all_path_probabilities, include_unseen) ==
    js_divergence(gt_distribution(gt_paths, all_path_probabilities, include_unseen),
                  pred_distribution(gt_paths, all_path_probabilities, include_unseen))

\* the batches of the divergence: three paths over three routes
JsdIdxs == { 1, 2, 3 }

JsdRoutes == { << 0 >>, << 1 >>, << 0, 1 >> }

InitJsd ==
    /\ LoopNotStarted
    /\ ConfigUnused
    /\ DecoderIdle
    /\ call = "none"
    /\ args \in [ gt_paths : [ JsdIdxs -> JsdRoutes ],
                  all_path_probabilities :
                      [ JsdIdxs -> { {} } \cup { Certain(r) : r \in JsdRoutes } ],
                  include_unseen : { TRUE } ]
    /\ ret = << >>

\* js_divergence on the two distributions of the batch
CallJsDivergence ==
    /\ call = "none"
    /\ call' = "js_divergence"
    /\ ret' = js_divergence(
                 gt_distribution(args.gt_paths, args.all_path_probabilities,
                                 args.include_unseen),
                 pred_distribution(args.gt_paths, args.all_path_probabilities,
                                   args.include_unseen))
    /\ UNCHANGED args
    /\ MetricFrame

\* metrics['JSD']: calculate_paths_jsd(..., include_unseen=True)
CallPathsJsd ==
    /\ call = "none"
    /\ call' = "calculate_paths_jsd"
    /\ ret' = calculate_paths_jsd(args.gt_paths, args.all_path_probabilities,
                                  args.include_unseen)
    /\ UNCHANGED args
    /\ MetricFrame

NextJsd ==
    \/ CallJsDivergence
    \/ CallPathsJsd

SpecJsd == InitJsd /\ [][NextJsd]_vars

(***************************************************************************)
(* Several paths decoded over one network.  The run that holds the         *)
(* processor is in the decoder's variables, the suspended one in           *)
(* args.other; a switch can happen between any two steps.  Before the two  *)
(* runs start, path 1 is decoded once alone and its result kept in ret.    *)
(***************************************************************************)
\* the locals of the run in progress
Frame ==
    [ S_path |-> S_path, tgt |-> tgt, s_path_idx |-> s_path_idx,
      current_step |-> current_step, pc |-> pc,
      path_probability |-> path_probability,
      complete_path |-> complete_path, obs_i |-> obs_i ]

\* the locals of predict_path at its entry for one sparse path
FreshFrame(path) ==
    [ S_path |-> path, tgt |-> << token_indexs["bos"] >>, s_path_idx |-> 0,
      current_step |-> 0, pc |-> "decode", path_probability |-> {},
      complete_path |-> << >>, obs_i |-> 0 ]

\* the run f takes the processor
Resume(f) ==
    /\ S_path' = f.S_path
    /\ tgt' = f.tgt
    /\ s_path_idx' = f.s_path_idx
    /\ current_step' = f.current_step
    /\ pc' = f.pc
    /\ path_probability' = f.path_probability
    /\ complete_path' = f.complete_path
    /\ obs_i' = f.obs_i

\* S_dict['paths'] of the batch: two sparse paths
SparsePairs == [ { 1, 2 } -> NonEmptySeqsUpTo(Links, 2) ]

\* the networks shared by the runs: intact, or with one adjacency list emptied
SharedNetworks ==
    { n \in Networks : /\ DOMAIN n.neighbor_links_O = DOMAIN n.edges
                       /\ DOMAIN n.link_nodes_dict = DOMAIN n.edges }

InitInterleave ==
    /\ LoopNotStarted
    /\ network \in SharedNetworks
    /\ max_len = MaxLen
    /\ use_shortest_path \in BOOLEAN
    /\ model = "uniform"
    /\ is_onehot_embedding = FALSE
    /\ call = "none"
    /\ ret = << >>
    /\ \E S_dict \in SparsePairs :
         /\ S_path = S_dict[1]
         /\ args = [ S_dict |-> S_dict, running |-> 0, other |-> FreshFrame(S_dict[2]) ]
    /\ DecoderStart

\* the run of path 1 alone has returned: its result is kept, and the two runs
\* that share the processor start
StartWorkers ==
    /\ args.running = 0
    /\ pc = "done"
    /\ ret' = path_probability
    /\ Resume(FreshFrame(args.S_dict[1]))
    /\ args' = [ args EXCEPT !.running = 1 ]
    /\ UNCHANGED << network, max_len, use_shortest_path, model, loop_vars,
                    is_onehot_embedding, call >>

\* the processor goes to the other run, if that one has not returned yet
Switch ==
    /\ args.running \in { 1, 2 }
    /\ args.other.pc # "done"
    /\ Resume(args.other)
    /\ args' = [ args EXCEPT !.running = 3 - @, !.other = Frame ]
    /\ UNCHANGED << network, max_len, use_shortest_path, model, loop_vars,
                    is_onehot_embedding, call, ret >>

NextInterleave ==
    \/ DecodeStep
    \/ ExtractPath
    \/ FallbackStep
    \/ FallbackValidate
    \/ StartWorkers
    \/ Switch

SpecInterleave == InitInterleave /\ [][NextInterleave]_vars

(***************************************************************************)
(* test.py: the batch inference loop.  predict_path is the decoder above,  *)
(* run to its return for one test path after the other; it raises for an   *)
(* empty sparse path (IndexError on S_path[-1]).                           *)
(***************************************************************************)
\* S_dict['paths'] of a batch: the sparse path of a ground truth without
\* segments is empty
BatchSparse == [ { 1, 2 } -> SeqsUpTo(Links, 2) ]

\* the lists of test path indices; each has its sparse observations
TestIdxLists == { << >>, << 1 >>, << 1, 2 >>, << 2, 1 >> }

BatchNetworks == { n \in SharedNetworks : n.edges = Cycle4 }

\* d[k] = v on a dictionary
Put(d, k, v) == [ x \in DOMAIN d \cup { k } |-> IF x = k THEN v ELSE d[x] ]

\* faulty variant: the handler leaves the path without an entry
ExceptResult_NoEntry(predicted, path_i) == predicted

\* "except Exception": predicted_paths[path_i] = {}
ExceptResult(predicted, path_i) == Put(predicted, path_i, {})

\* calculate_metrics: completed_paths and path_completion_rate
completed_paths(test_idxs, predicted) ==
    Cardinality({ k \in 1..Len(test_idxs) :
                    /\ test_idxs[k] \in DOMAIN predicted
                    /\ Cardinality(predicted[test_idxs[k]]) > 0 })

path_completion_rate(test_idxs, predicted) ==
    IF Len(test_idxs) > 0
    THEN Rat(completed_paths(test_idxs, predicted), Len(test_idxs))
    ELSE Zero

InitBatch ==
    /\ LoopNotStarted
    /\ network \in BatchNetworks
    /\ S_path = << >>
    /\ max_len = MaxLen
    /\ use_shortest_path \in BOOLEAN
    /\ model = "learned"
    /\ is_onehot_embedding = FALSE
    /\ DecoderIdle
    /\ call = "none"
    /\ args \in [ S_dict : BatchSparse, test_idxs : TestIdxLists ]
    /\ ret = << >>

\* the loop takes the next test path: predict_path starts, or raises at once and
\* the handler runs
LoopIteration ==
    /\ pc = "idle"
    /\ call = "none"
    /\ idx < Len(args.test_idxs)
    /\ LET path_i == args.test_idxs[idx + 1]
       IN  IF args.S_dict[path_i] = << >>
           THEN /\ fail_count' = fail_count + 1
                /\ predicted_paths' = ExceptResult(predicted_paths, path_i)
                /\ idx' = idx + 1
                /\ UNCHANGED << success_count, S_path, decoder_vars >>
           ELSE /\ Resume(FreshFrame(args.S_dict[path_i]))
                /\ UNCHANGED loop_vars
    /\ UNCHANGED << network, max_len, use_shortest_path, model,
                    is_onehot_embedding, call_vars >>

\* predict_path has returned: the result is stored and counted
LoopRecord ==
    /\ pc = "done"
    /\ LET path_i == args.test_idxs[idx + 1]
           path_prob == path_probability
       IN  /\ predicted_paths' = Put(predicted_paths, path_i, path_prob)
           /\ IF Cardinality(path_prob) > 0
              THEN success_count' = success_count + 1 /\ UNCHANGED fail_count
              ELSE fail_count' = fail_count + 1 /\ UNCHANGED success_count
    /\ idx' = idx + 1
    /\ S_path' = << >>
    /\ tgt' = << >>
    /\ s_path_idx' = 0
    /\ current_step' = 0
    /\ pc' = "idle"
    /\ path_probability' = {}
    /\ complete_path' = << >>
    /\ obs_i' = 0
    /\ UNCHANGED << network, max_len, use_shortest_path, model,
                    is_onehot_embedding, call_vars >>

\* after the loop: the summary lines divide by len(test_idxs), main returns
\* early when nothing succeeded, else calculate_metrics gives the rate
LoopEnd ==
    /\ pc = "idle"
    /\ call = "none"
    /\ idx = Len(args.test_idxs)
    /\ call' = "main"
    /\ ret' = IF Len(args.test_idxs) = 0 THEN Raised("ZeroDivisionError")
              ELSE IF success_count = 0 THEN [ metrics |-> FALSE ]
              ELSE [ metrics |-> TRUE,
                     path_completion_rate |->
                         path_completion_rate(args.test_idxs, predicted_paths),
                     total_paths |-> Len(args.test_idxs),
                     completed_paths |->
                         completed_paths(args.test_idxs, predicted_paths) ]
    /\ UNCHANGED << network, S_path, max_len, use_shortest_path, model, loop_vars,
                    is_onehot_embedding, decoder_vars, args >>

NextBatch ==
    \/ DecodeStep
    \/ ExtractPath
    \/ FallbackStep
    \/ FallbackValidate
    \/ LoopIteration
    \/ LoopRecord
    \/ LoopEnd

SpecBatch == InitBatch /\ [][NextBatch]_vars

(***************************************************************************)
(* DataGenerator.create_sequence_target and the shift of                   *)
(* _create_samples_from_dict, on a batch of two ground-truth paths.        *)
(***************************************************************************)
\* "Padding": pad tokens up to max_len
RECURSIVE PadTarget(_)
PadTarget(path_tgt_y) ==
    IF Len(path_tgt_y) < max_len
    THEN PadTarget(Append(path_tgt_y, token_indexs["pos"]))
    ELSE path_tgt_y

\* faulty variant: the end token is written over the last position of the padding
create_sequence_target_EndLast(GT_path) ==
    LET padded == PadTarget(<< token_indexs["bos"] >> \o GT_path)
    IN  Append(SubSeq(padded, 1, Len(padded) - 1), token_indexs["eos"])

create_sequence_target(GT_path) ==
    PadTarget(<< token_indexs["bos"] >> \o GT_path \o << token_indexs["eos"] >>)

\* rows[:, :-1] and rows[:, 1:] on the array of the targets; rows of different
\* lengths make no two-dimensional array and the statement raises
create_samples(GT_paths) ==
    LET path_tgts_y == [ r \in 1..Len(GT_paths) |-> create_sequence_target(GT_paths[r]) ]
    IN  IF \E r \in 1..Len(GT_paths) : Len(path_tgts_y[r]) # Len(path_tgts_y[1])
        THEN Raised("ragged array")
        ELSE [ path_tgts |->
                 [ r \in 1..Len(GT_paths) |->
                     SubSeq(path_tgts_y[r], 1, Len(path_tgts_y[r]) - 1) ],
               path_tgts_y |->
                 [ r \in 1..Len(GT_paths) |->
                     SubSeq(path_tgts_y[r], 2, Len(path_tgts_y[r])) ] ]

\* the ground-truth paths of a batch
TargetPaths == SeqsUpTo(EdLinks, MaxSparseLen)

\* the sequence lengths tried: from too short for begin and end to one more
\* than the longest target
TargetLens == 1..(MaxSparseLen + 3)

InitTarget ==
    /\ LoopNotStarted
    /\ network = NetworkOf(Cycle4)
    /\ S_path = << >>
    /\ max_len \in TargetLens
    /\ use_shortest_path = FALSE
    /\ model = "learned"
    /\ is_onehot_embedding = FALSE
    /\ DecoderIdle
    /\ call = "none"
    /\ args \in [ GT_paths : [ 1..2 -> TargetPaths ] ]
    /\ ret = << >>

CallCreateSequenceTarget ==
    /\ call = "none"
    /\ call' = "create_sequence_target"
    /\ ret' = create_sequence_target(args.GT_paths[1])
    /\ UNCHANGED << network, S_path, max_len, use_shortest_path, model, loop_vars,
                    is_onehot_embedding, decoder_vars, args >>

CallCreateSamples ==
    /\ call = "none"
    /\ call' = "_create_samples_from_dict"
    /\ ret' = create_samples(args.GT_paths)
    /\ UNCHANGED << network, S_path, max_len, use_shortest_path, model, loop_vars,
                    is_onehot_embedding, decoder_vars, args >>

NextTarget ==
    \/ CallCreateSequenceTarget
    \/ CallCreateSamples

SpecTarget == InitTarget /\ [][NextTarget]_vars

(***************************************************************************)
(* Properties of predict_path, checked under Spec.                         *)
(***************************************************************************)
\* a is a subsequence of b: some positions of b, in order, spell a
IsSubsequenceOf(a, b) ==
    \E I \in SUBSET (1..Len(b)) : Cardinality(I) = Len(a) /\ Pick(b, I) = a

Returned == pc = "done"

Cycle4Network == NetworkOf(Cycle4)

\* the 4-cycle with segment 2's downstream adjacency corrupted to empty
Cycle4Corrupted == [ Cycle4Network EXCEPT !.neighbor_links_O[2] = << >> ]

\* the greedy path failed its validation (tgt holds the stripped path once returned)
GreedyFailed == ~is_path_subsequence_of_path(S_path, tgt)

\* C1: whenever predict_path returns a non-empty mapping, with the fallback
\* enabled or disabled, the sparse observation path is a subsequence (in order,
\* not necessarily contiguous) of the returned path.
C1_ObservationsKept ==
    Returned => \A e \in path_probability : IsSubsequenceOf(S_path, e.path)

\* a stitched path, longer than the observations, was returned
C1_Witness ==
    /\ Returned
    /\ use_shortest_path
    /\ GreedyFailed
    /\ \E e \in path_probability : Len(e.path) > Len(S_path)

\* C2: predict_path returns either the empty mapping or a mapping with exactly
\* one path whose probability is 1.0; never two hypotheses, never another mass.
C2_SingleHypothesis ==
    /\ Cardinality(path_probability) <= 1
    /\ \A e \in path_probability : e.prob = 1

\* a greedy path was returned while the fallback was enabled
C2_Witness ==
    /\ Returned
    /\ use_shortest_path
    /\ path_probability = { [ path |-> tgt, prob |-> 1 ] }
    /\ Len(tgt) > Len(S_path)

\* C3: the greedy loop makes at most max_len predictor queries (one per
\* iteration), the loop is left once the budget is spent, and the committed
\* path without begin has at most max_len segments.
C3_StepBudget ==
    /\ current_step <= max_len
    /\ pc = "decode" => current_step < max_len
    /\ Len(RemoveFirst(tgt, token_indexs["bos"])) <= max_len

\* the budget ran out on a cycle with the observations not covered
C3_Witness ==
    /\ pc = "extract"
    /\ current_step = max_len
    /\ Len(tgt) = max_len + 1
    /\ max_len > Len(S_path)
    /\ ~is_path_subsequence_of_path(S_path, tgt)

\* C4: on the 4-node cycle with sparse observation [0,3], a predictor that is
\* uniform and positive on the admissible candidates makes predict_path return
\* exactly {(0,1,2,3): 1.0}, for max_len >= 4.
C4_CycleScenario ==
    ( /\ Returned
      /\ network = Cycle4Network
      /\ S_path = << 0, 3 >>
      /\ model = "uniform"
      /\ max_len >= 4 )
    => path_probability = { [ path |-> << 0, 1, 2, 3 >>, prob |-> 1 ] }

C4_Witness ==
    /\ Returned
    /\ network = Cycle4Network
    /\ S_path = << 0, 3 >>
    /\ model = "uniform"
    /\ max_len >= 4
    /\ ~use_shortest_path
    /\ path_probability # {}

\* C5: on the 4-node cycle with sparse observation [0,3] and segment 2's
\* downstream adjacency empty: with the fallback disabled predict_path returns
\* the empty mapping; with it enabled it returns one stitched path with
\* probability 1.0 that contains 0 and 3 in order.
C5_CorruptedScenario ==
    ( /\ Returned
      /\ network = Cycle4Corrupted
      /\ S_path = << 0, 3 >> )
    => IF use_shortest_path
       THEN /\ Cardinality(path_probability) = 1
            /\ \A e \in path_probability :
                  /\ e.prob = 1
                  /\ e.path = complete_path
                  /\ IsSubsequenceOf(<< 0, 3 >>, e.path)
       ELSE path_probability = {}

\* the stitched path of the corrupted scenario
C5_Witness ==
    /\ Returned
    /\ network = Cycle4Corrupted
    /\ S_path = << 0, 3 >>
    /\ use_shortest_path
    /\ path_probability = { [ path |-> << 0, 1, 2, 3 >>, prob |-> 1 ] }

\* the shortest-path search fails for the observed pair at positions k, k+1
SearchFails(k) ==
    /\ S_path[k] \in DOMAIN network.link_nodes_dict
    /\ S_path[k + 1] \in DOMAIN network.link_nodes_dict
    /\ network.link_nodes_dict[S_path[k]][2] # network.link_nodes_dict[S_path[k + 1]][1]
    /\ shortest_path(network.link_nodes_dict[S_path[k]][2],
                     network.link_nodes_dict[S_path[k + 1]][1]) = {}

\* the observed pair at positions k, k+1 needs no search: the nodes coincide
NodesCoincide(k) ==
    /\ S_path[k] \in DOMAIN network.link_nodes_dict
    /\ S_path[k + 1] \in DOMAIN network.link_nodes_dict
    /\ network.link_nodes_dict[S_path[k]][2] = network.link_nodes_dict[S_path[k + 1]][1]

\* C6 as stated: with the fallback enabled and greedy validation failed, if the
\* shortest-path search fails for some consecutive pair of observed segments,
\* predict_path returns the empty mapping.
C6_Original ==
    ( /\ Returned
      /\ use_shortest_path
      /\ GreedyFailed
      /\ \E k \in 1..(Len(S_path) - 1) : SearchFails(k) )
    => path_probability = {}

\* C6 as amended: with the fallback enabled and greedy validation failed, a
\* failed shortest-path search only leaves its pair without inserted segments.
\* predict_path returns the stitched path, which holds every observed segment
\* in order, with probability 1.0 (the sparse path itself when no pair can be
\* connected); it returns the empty mapping only when an observed segment has
\* no entry in link_nodes_dict.
C6_FailedSearchSkipsGap ==
    ( /\ Returned
      /\ use_shortest_path
      /\ GreedyFailed )
    => IF \A k \in 1..Len(S_path) : S_path[k] \in DOMAIN network.link_nodes_dict
       THEN /\ path_probability = { [ path |-> complete_path, prob |-> 1 ] }
            /\ IsSubsequenceOf(S_path, complete_path)
            /\ (\A k \in 1..(Len(S_path) - 1) : SearchFails(k) \/ NodesCoincide(k))
                  => complete_path = S_path
       ELSE path_probability = {}

\* a search failed, one succeeded, and a stitched path was still returned
C6_Witness ==
    /\ Returned
    /\ use_shortest_path
    /\ GreedyFailed
    /\ \E k \in 1..(Len(S_path) - 1) : SearchFails(k)
    /\ path_probability = { [ path |-> complete_path, prob |-> 1 ] }
    /\ Len(complete_path) > Len(S_path)

(***************************************************************************)
(* Properties of the observation simulators, checked under SpecMask.       *)
(***************************************************************************)
Simulated == call \in { "prepare_discontinuous_path", "prepare_sparse_observations" }

\* C7: for every non-empty ground-truth path p (lengths 1 and 2 included),
\* prepare_discontinuous_path with any mask ratio in [0,1] or 'OD', and
\* prepare_sparse_observations with any detector set, return an order-preserving
\* subsequence of p that contains p[0] and p[-1] and is no longer than p.
C7_AnchoredSubsequence ==
    Simulated =>
        /\ Len(ret) >= 1
        /\ Len(ret) <= Len(args.path)
        /\ ret[1] = args.path[1]
        /\ ret[Len(ret)] = args.path[Len(args.path)]
        /\ IsSubsequenceOf(ret, args.path)

(***************************************************************************)
(* Properties of the encoder, checked under SpecEncode.                    *)
(***************************************************************************)
Encoded == call = "encode_discontinuous_path"

\* the token id read back from one position of an encoded sequence
TokenIdOf(point_info) ==
    IF is_onehot_embedding
    THEN (CHOOSE k \in 1..(Len(point_info) - 1) : point_info[k] = 1) - 1
    ELSE point_info[1]

TokenIds(path_src) == [ k \in 1..Len(path_src) |-> TokenIdOf(path_src[k]) ]

ControlTokens == { token_indexs[t] : t \in Range(tokens) }

\* the observed pairs that get a discontinuity marker
Gaps == { k \in 1..(Len(S_path) - 1) :
            ~InSeq(S_path[k + 1], neighbor_links_O_get(S_path[k])) }

\* begin + observed segments + discontinuity markers + end
ContentLen == Len(S_path) + Cardinality(Gaps) + 2

\* C8: encode_discontinuous_path returns a sequence of exactly max_len
\* positions whenever it returns, also when begin + observed segments +
\* discontinuity markers + end exceed max_len.
C8_FixedLength == Encoded => Len(ret) = max_len

\* C9: for every non-empty sparse path whose encoded content fits in max_len,
\* the token ids read back from the encoded sequence (one-hot or index form)
\* have begin at position 0 and end immediately before the padding, and without
\* begin, end, mask-discontinuity and pad tokens they are the sparse path.
C9_RoundTrip ==
    (Encoded /\ ContentLen <= max_len) =>
        LET ids == TokenIds(ret)
        IN  /\ ids[1] = token_indexs["bos"]
            /\ ids[ContentLen] = token_indexs["eos"]
            /\ \A k \in 1..Len(ids) :
                 /\ k < ContentLen => ids[k] \notin { token_indexs["eos"], token_indexs["pos"] }
                 /\ k > ContentLen => ids[k] = token_indexs["pos"]
            /\ Pick(ids, { k \in 1..Len(ids) : ids[k] \notin ControlTokens }) = S_path

\* a one-hot sequence with a discontinuity marker and padding
C9_Witness ==
    /\ Encoded
    /\ is_onehot_embedding
    /\ ContentLen < max_len
    /\ Len(S_path) >= 3
    /\ Gaps # {}
    /\ Gaps # 1..(Len(S_path) - 1)
    /\ Len(ret) = max_len

(***************************************************************************)
(* Properties of the subsequence test, checked under SpecSubseq.           *)
(***************************************************************************)
\* C10: is_path_subsequence_of_path(needle, haystack) is true exactly when the
\* elements of needle occur in haystack in the same order, not necessarily
\* contiguously, repeated elements included; it is true for (s, s) and for the
\* empty needle, and false for (s, s[:-1]) with non-empty s.
C10_SubsequenceTest ==
    call = "is_path_subsequence_of_path" =>
        LET needle == args.subsequence
            haystack == args.sequence
        IN  /\ ret <=> IsSubsequenceOf(needle, haystack)
            /\ haystack = needle => ret
            /\ needle = << >> => ret
            /\ (needle # << >> /\ haystack = SubSeq(needle, 1, Len(needle) - 1)) => ~ret

\* a repeated element found across a gap
C10_Witness ==
    /\ call = "is_path_subsequence_of_path"
    /\ args.subsequence = << 0, 1, 0 >>
    /\ args.sequence = << 0, 0, 1, 0 >>
    /\ ret

(***************************************************************************)
(* Properties of the edit distance, checked under SpecEditDistance.        *)
(***************************************************************************)
\* C11: levenshtein_distance(a, b) = levenshtein_distance(b, a) for all
\* sequences, it is 0 exactly when a and b are identical, and the normalized
\* value min(distance / len(ground truth), 1.0) of calculate_path_ed lies in
\* [0, 1] for every non-empty ground truth.
C11_EditDistance ==
    /\ call = "levenshtein_distance" =>
         /\ ret = levenshtein_distance(args.path2, args.path1)
         /\ ret = 0 <=> args.path1 = args.path2
    /\ (call = "calculate_path_ed" /\ args.path1 # << >>) =>
         /\ IsRat(ret)
         /\ ret.den > 0
         /\ RatLeq(Zero, ret)
         /\ RatLeq(ret, One)

\* a prediction further from the ground truth than the ground truth is long:
\* the distance is clipped to 1
C11_Witness ==
    /\ call = "calculate_path_ed"
    /\ args.path1 # << >>
    /\ levenshtein_distance(args.path1, args.path2) > Len(args.path1)
    /\ RatEq(ret, One)

(***************************************************************************)
(* Properties of the metrics over a batch, checked under SpecMetrics.      *)
(***************************************************************************)
\* the paths of the batch whose predicted distribution is empty
EmptyPredictions == { i \in BatchIdxs : args.all_path_probabilities[i] = {} }

\* the sum of f over a set of path indices
RECURSIVE SumOver(_, _)
SumOver(I, f) ==
    IF I = {} THEN Zero
    ELSE LET i == CHOOSE x \in I : TRUE
         IN  RatAdd(f[i], SumOver(I \ { i }, f))

\* ret is a mean in which every empty prediction counts as `worst` and every
\* other path as its per-path value
MeanCounts(per_path, worst) ==
    LET others == BatchIdxs \ EmptyPredictions
    IN  (\A i \in others : IsRat(per_path[i])) =>
            /\ IsRat(ret)
            /\ RatEq(RatMul(ret, Rat(Cardinality(BatchIdxs), 1)),
                     RatAdd(SumOver(others, per_path),
                            RatMul(worst, Rat(Cardinality(EmptyPredictions), 1))))

\* C12: a path whose predicted distribution is empty contributes exactly
\* ED = 1.0, BLEU = 0.0 and TLLA = 0.0 to the per-path metrics and to their
\* means, whatever its ground truth is (empty and zero-length included), and
\* no metric function raises for it.
C12_EmptyPredictionWorstCase ==
    /\ (call = "calculate_path_ed" /\ args.path_i \in EmptyPredictions) =>
           IsRat(ret) /\ RatEq(ret, One)
    /\ (call = "calculate_path_bleu" /\ args.path_i \in EmptyPredictions) =>
           IsRat(ret) /\ RatEq(ret, Zero)
    /\ (call = "calculate_path_tlla" /\ args.path_i \in EmptyPredictions) =>
           IsRat(ret) /\ RatEq(ret, Zero)
    /\ call = "calculate_paths_ed" =>
           MeanCounts([ i \in BatchIdxs |->
                          calculate_path_ed(args.gt_paths[i],
                                            args.all_path_probabilities[i]) ], One)
    /\ call = "calculate_paths_bleu" =>
           MeanCounts([ i \in BatchIdxs |->
                          calculate_path_bleu(args.all_path_probabilities[i],
                                              args.bleu[i]) ], Zero)
    /\ call = "calculate_paths_tlla" =>
           MeanCounts([ i \in BatchIdxs |->
                          calculate_path_tlla(args.gt_paths[i],
                                              args.all_path_probabilities[i],
                                              args.LENGTH, args.number_type) ], Zero)
    /\ (call # "none" /\ EmptyPredictions = BatchIdxs) => IsRat(ret)

\* the mean edit distance of a batch with one empty prediction, whose ground
\* truth is empty, and one exact prediction: (1.0 + 0.0) / 2
C12_Witness ==
    /\ call = "calculate_paths_ed"
    /\ \E i \in EmptyPredictions : args.gt_paths[i] = << >>
    /\ \E i \in BatchIdxs \ EmptyPredictions :
           args.all_path_probabilities[i] = Certain(args.gt_paths[i])
    /\ RatEq(ret, Rat(1, 2))

\* the paths with a prediction whose ground truth has no segment
ZeroLengthTruth ==
    { i \in BatchIdxs \ EmptyPredictions : args.gt_paths[i] = << >> }

\* the paths with a prediction whose ground truth has zero total length
ZeroTotalLength ==
    { i \in BatchIdxs \ EmptyPredictions :
        TotalLength(args.gt_paths[i], args.LENGTH) = 0 }

\* ret is the mean in which the paths of `degenerate` and the empty predictions
\* count as `worst` and every other path as its per-path value
MeanSubstitutes(per_path, degenerate, worst) ==
    /\ IsRat(ret)
    /\ LET others == BatchIdxs \ (EmptyPredictions \cup degenerate)
       IN  RatEq(RatMul(ret, Rat(Cardinality(BatchIdxs), 1)),
                 RatAdd(SumOver(others, per_path),
                        RatMul(worst, Rat(Cardinality(BatchIdxs \ others), 1))))

\* C13: for a path whose ground truth is zero-length (or has zero total
\* length) and whose predicted distribution is non-empty, calculate_paths_ed
\* and calculate_paths_tlla put the worst-case constant (ED 1.0, TLLA 0.0) in
\* that path's place and still return an aggregate: no error, no NaN.
C13_DegenerateTruthSubstituted ==
    /\ (call = "calculate_paths_ed" /\ ZeroLengthTruth # {}) =>
           MeanSubstitutes([ i \in BatchIdxs |->
                               calculate_path_ed(args.gt_paths[i],
                                                 args.all_path_probabilities[i]) ],
                           ZeroLengthTruth, One)
    /\ (call = "calculate_paths_tlla" /\ ZeroTotalLength # {}) =>
           MeanSubstitutes([ i \in BatchIdxs |->
                               calculate_path_tlla(args.gt_paths[i],
                                                   args.all_path_probabilities[i],
                                                   args.LENGTH, args.number_type) ],
                           ZeroTotalLength, Zero)

\* what the NaN guard of calculate_paths_tlla does cover: numpy lengths and a
\* ground truth with segments
TllaNanGuardCovers ==
    (/\ call = "calculate_paths_tlla"
     /\ ZeroTotalLength # {}
     /\ args.number_type = "float64"
     /\ ZeroLengthTruth = {}) =>
           MeanSubstitutes([ i \in BatchIdxs |->
                               calculate_path_tlla(args.gt_paths[i],
                                                   args.all_path_probabilities[i],
                                                   args.LENGTH, args.number_type) ],
                           ZeroTotalLength, Zero)

(***************************************************************************)
(* Properties of the JS divergence, checked under SpecJsd.  Values are     *)
(* compared as exact numbers.                                              *)
(***************************************************************************)
\* a <= b for two divergences of one scale
Log2Leq(a, b) ==
    /\ a.scale = b.scale
    /\ a.twos = b.twos
    /\ a.num * b.den <= b.num * a.den

\* the divergence is 0
Log2IsZero(a) == a.num * Power(2, a.twos) = a.den

\* the batch's two distributions
GtDistribution ==
    gt_distribution(args.gt_paths, args.all_path_probabilities, args.include_unseen)

PredDistribution ==
    pred_distribution(args.gt_paths, args.all_path_probabilities, args.include_unseen)

\* the predictions with that of path i replaced by the empty mapping
MovedToUnseen(i) == [ args.all_path_probabilities EXCEPT ![i] = {} ]

SharedUntouched ==
    /\ network' = network
    /\ args.S_dict' = args.S_dict

\* the result of the interleaved run of path 1, once it has returned
InterleavedResult ==
    IF args.running = 1 THEN path_probability ELSE args.other.path_probability

InterleavedReturned ==
    \/ args.running = 1 /\ pc = "done"
    \/ args.running = 2 /\ args.other.pc = "done"

\* C15: predict_path never modifies the graph adjacency map, the link-to-nodes
\* map or the sparse-observation dictionary, so a path decoded in any
\* interleaving of its steps with another path's gets the result it gets alone.
C15_NoSharedWrites ==
    /\ [][SharedUntouched]_vars
    /\ [](InterleavedReturned => InterleavedResult = ret)

\* path 1 has returned a path of several segments after the other run, now
\* suspended in the middle of its loop, had taken steps
C15_Witness ==
    /\ args.running = 1
    /\ pc = "done"
    /\ \E e \in path_probability : Len(e.path) >= 2
    /\ args.other.pc = "decode"
    /\ args.other.current_step >= 1

\* C16: in the batch loop every processed test path has exactly one entry in
\* predicted_paths, the empty mapping when predict_path raised and the returned
\* mapping otherwise; after a failure the loop is ready for the next path;
\* success_count + fail_count is the number of paths processed; and the
\* completion rate is the number of non-empty predictions over the number of
\* test paths.
Processed == { args.test_idxs[k] : k \in 1..idx }

NonEmptyEntries ==
    { i \in DOMAIN predicted_paths : Cardinality(predicted_paths[i]) > 0 }

LoopCounts ==
    /\ DOMAIN predicted_paths = Processed
    /\ \A i \in Processed : args.S_dict[i] = << >> => predicted_paths[i] = {}
    /\ success_count + fail_count = idx
    /\ success_count = Cardinality(NonEmptyEntries)
    /\ (pc = "idle" /\ call = "none" /\ idx < Len(args.test_idxs))
           => ENABLED LoopIteration

RateReported ==
    (call = "main" /\ "metrics" \in DOMAIN ret /\ ret.metrics)
        => /\ idx = Len(args.test_idxs)
           /\ ret.total_paths = Len(args.test_idxs)
           /\ ret.completed_paths = Cardinality(NonEmptyEntries)
           /\ RatEq(ret.path_completion_rate,
                    Rat(Cardinality(NonEmptyEntries), Len(args.test_idxs)))

ResultStored ==
    (pc = "done" /\ idx' = idx + 1)
        => predicted_paths'[args.test_idxs[idx + 1]] = path_probability

C16_BatchLoop == [](LoopCounts /\ RateReported) /\ [][ResultStored]_vars

C16_Witness ==
    /\ call = "main"
    /\ "metrics" \in DOMAIN ret
    /\ ret.metrics
    /\ Len(args.test_idxs) = 2
    /\ args.S_dict[args.test_idxs[1]] = << >>
    /\ success_count = 1
    /\ fail_count = 1

\* C17: when every consecutive pair of the sparse path is downstream-adjacent
\* and the sparse path is no longer than max_len, the decoder commits the
\* observations one after the other and predict_path returns {S_path: 1.0},
\* whatever the predictor gives: no two runs on the same input differ.
NoGap ==
    \A k \in 1..(Len(S_path) - 1) :
        /\ S_path[k] \in DOMAIN network.neighbor_links_O
        /\ InSeq(S_path[k + 1], network.neighbor_links_O[S_path[k]])

C17_ContiguousObservations ==
    (NoGap /\ Len(S_path) <= max_len)
        => /\ pc = "decode" =>
                tgt = << token_indexs["bos"] >> \o SubSeq(S_path, 1, Len(tgt) - 1)
           /\ pc \in { "decode", "extract", "done" }
           /\ pc = "done" => path_probability = { [ path |-> S_path, prob |-> 1 ] }

C17_Witness ==
    /\ NoGap
    /\ model = "learned"
    /\ Len(S_path) = MaxSparseLen
    /\ max_len = MaxLen
    /\ \E k \in 1..(Len(S_path) - 1) : Len(neighbor_links_O_get(S_path[k])) >= 2
    /\ pc = "done"
    /\ path_probability = { [ path |-> S_path, prob |-> 1 ] }

\* C18: at a decode step after the start step, while the observations are not
\* covered, if the next observed link S_path[s_path_idx] (0-based) is a
\* downstream neighbour of the last committed link, that link is committed
\* whatever the predictor returns, and s_path_idx grows by exactly 1.
AnchorInReach ==
    /\ pc = "decode"
    /\ Last(tgt) # token_indexs["bos"]
    /\ ~is_path_subsequence_of_path(S_path, tgt)
    /\ s_path_idx < Len(S_path)
    /\ Last(tgt) \in DOMAIN network.neighbor_links_O
    /\ InSeq(S_path[s_path_idx + 1], network.neighbor_links_O[Last(tgt)])

AnchorCommitted ==
    AnchorInReach
        => /\ tgt' = Append(tgt, S_path[s_path_idx + 1])
           /\ s_path_idx' = s_path_idx + 1

C18_AnchorForced == [][AnchorCommitted]_vars

\* an anchor committed after a gap that the model filled, at a link where the
\* model had another neighbour to choose
C18_Witness ==
    /\ model = "learned"
    /\ Len(S_path) >= 2
    /\ Len(tgt) = 4
    /\ tgt[1] = token_indexs["bos"]
    /\ s_path_idx = 2
    /\ tgt[4] = S_path[2]
    /\ tgt[3] # S_path[2]
    /\ Len(neighbor_links_O_get(tgt[3])) >= 2

\* C19: at the first step after begin at which the sparse path is a subsequence
\* of the committed prefix, the decoder chooses end and leaves the loop with
\* the prefix as it is, also at a link without downstream neighbours; end is
\* never chosen while the observations are not covered.
Covered ==
    /\ pc = "decode"
    /\ Last(tgt) # token_indexs["bos"]
    /\ is_path_subsequence_of_path(S_path, tgt)

ChoosesEnd(choice) == ~choice.brk /\ choice.link = token_indexs["eos"]

EndIffCovered ==
    pc = "decode"
        => LET covered == Covered
           IN  \A predict_val \in predict(neighbor_links_O_get(Last(tgt))) :
                   ChoosesEnd(NextLink(predict_val)) <=> covered

StopsWhenCovered ==
    Covered => /\ tgt' = tgt
               /\ pc' = "extract"
               /\ s_path_idx' = s_path_idx

\* a covered prefix is never extended: every proper prefix of the committed
\* sequence left the observations uncovered
FirstCoveredStep ==
    pc = "decode"
        => \A n \in 2..(Len(tgt) - 1) :
               ~is_path_subsequence_of_path(S_path, SubSeq(tgt, 1, n))

C19_EndWhenCovered ==
    [](EndIffCovered /\ FirstCoveredStep) /\ [][StopsWhenCovered]_vars

\* the loop was left on end, before the budget, at a dead end, after a gap
\* filled by the model
C19_Witness ==
    /\ pc = "extract"
    /\ current_step < max_len
    /\ is_path_subsequence_of_path(S_path, tgt)
    /\ Len(tgt) > Len(S_path) + 1
    /\ Len(neighbor_links_O_get(Last(tgt))) = 0

\* C20: when the observations are not covered and no anchor is forced, the
\* decoder either breaks (no downstream neighbour, or none with a positive
\* value) or commits the downstream neighbour whose value is maximal among the
\* neighbours, the first such in the adjacency list's order; a token outside
\* the list is never committed, whatever its value.
ModelDecides ==
    /\ pc = "decode"
    /\ Last(tgt) # token_indexs["bos"]
    /\ ~is_path_subsequence_of_path(S_path, tgt)
    /\ ~(/\ s_path_idx < Len(S_path)
         /\ InSeq(S_path[s_path_idx + 1], neighbor_links_O_get(Last(tgt))))

FirstMaximal(predict_val, links, k) ==
    /\ \A j \in 1..Len(links) : predict_val[links[j]] <= predict_val[links[k]]
    /\ \A j \in 1..(k - 1) : predict_val[links[j]] < predict_val[links[k]]

StableArgmax ==
    ModelDecides
        => LET links == neighbor_links_O_get(Last(tgt))
           IN  \A predict_val \in predict(links) :
                 LET choice == NextLink(predict_val)
                 IN  IF \A k \in 1..Len(links) : predict_val[links[k]] <= 0
                     THEN choice.brk
                     ELSE /\ ~choice.brk
                          /\ choice.idx = s_path_idx
                          /\ \E k \in 1..Len(links) :
                               /\ choice.link = links[k]
                               /\ FirstMaximal(predict_val, links, k)

NeighbourCommitted ==
    ModelDecides
        => /\ s_path_idx' = s_path_idx
           /\ \/ tgt' = tgt /\ pc' = "extract"
              \/ \E k \in 1..Len(neighbor_links_O_get(Last(tgt))) :
                    tgt' = Append(tgt, neighbor_links_O_get(Last(tgt))[k])

C20_StableArgmax == []StableArgmax /\ [][NeighbourCommitted]_vars

\* the model filled a gap at a link whose adjacency list is not in id order,
\* committing the first link of the list; an output vector with a tie among the
\* neighbours and a larger value on end is among those the step was taken for
C20_Witness ==
    /\ model = "vocabulary"
    /\ Len(tgt) = 3
    /\ tgt[1] = token_indexs["bos"]
    /\ s_path_idx = 1
    /\ Len(S_path) = 2
    /\ LET links == neighbor_links_O_get(tgt[2])
       IN  /\ Len(links) = 2
           /\ links[1] > links[2]
           /\ ~InSeq(S_path[2], links)
           /\ tgt[3] = links[1]
           /\ \E predict_val \in predict(links) :
                /\ predict_val[links[1]] > 0
                /\ predict_val[links[1]] = predict_val[links[2]]
                /\ predict_val[token_indexs["eos"]] > predict_val[links[1]]

\* C21: with the fallback disabled, a decoder that is not covered and has no
\* anchor in reach leaves the loop without committing anything when the
\* current link has no downstream neighbour, recorded or not, or no
\* neighbour has a positive value; predict_path then returns the empty
\* mapping, and no step of it raises.
DeadEndBreaks ==
    ModelDecides
        => LET links == neighbor_links_O_get(Last(tgt))
           IN  \A predict_val \in predict(links) :
                 (\A k \in 1..Len(links) : predict_val[links[k]] <= 0)
                     => /\ NextLink(predict_val).brk
                        /\ LeavesLoop(NextLink(predict_val))

TruncatedIsEmpty ==
    ~use_shortest_path
        => /\ pc \in { "decode", "extract", "done" }
           /\ (pc = "done" /\ ~is_path_subsequence_of_path(S_path, tgt))
                  => path_probability = {}

C21_DeadEndEmpty == DeadEndBreaks /\ TruncatedIsEmpty

\* the loop was left before the budget at a link whose adjacency is not
\* recorded, with observations still to reach
C21_Witness ==
    /\ ~use_shortest_path
    /\ pc = "done"
    /\ current_step < max_len
    /\ Len(tgt) >= 2
    /\ Last(tgt) \notin DOMAIN network.neighbor_links_O
    /\ ~is_path_subsequence_of_path(S_path, tgt)
    /\ path_probability = {}

\* C22: in the fallback the assembled path is S_path[0] followed, for each
\* consecutive observed pair (a, b), by the links of the consecutive node pairs
\* of a shortest node path from a's end node to b's start node (when the two
\* nodes differ and such a path exists), then b: nothing is inserted anywhere
\* but between the two observed links of a pair.
NodeWalks(a, b, n) ==
    { w \in [1..n -> Nodes] :
        /\ w[1] = a
        /\ w[n] = b
        /\ \A j \in 1..(n - 1) : \E l \in Links : network.edges[l] = << w[j], w[j + 1] >> }

ShortestNodeWalks(a, b) ==
    LET lens == { n \in 2..Cardinality(Nodes) : NodeWalks(a, b, n) # {} }
    IN  IF lens = {} THEN {}
        ELSE NodeWalks(a, b, CHOOSE n \in lens : \A m \in lens : n <= m)

\* the links of a node walk: per node pair the lowest link recorded for it, if any
RECURSIVE WalkLinks(_, _)
WalkLinks(w, j) ==
    IF j >= Len(w) THEN << >>
    ELSE LET ls == { l \in DOMAIN network.link_nodes_dict :
                       /\ network.link_nodes_dict[l][1] = w[j]
                       /\ network.link_nodes_dict[l][2] = w[j + 1] }
         IN  (IF ls = {} THEN << >>
              ELSE << CHOOSE l \in ls : \A m \in ls : l <= m >>)
             \o WalkLinks(w, j + 1)

Bridges(a, b) ==
    LET from == network.link_nodes_dict[a][2]
        to == network.link_nodes_dict[b][1]
    IN  IF from = to \/ ShortestNodeWalks(from, to) = {}
        THEN { << >> }
        ELSE { WalkLinks(w, 1) : w \in ShortestNodeWalks(from, to) }

RECURSIVE Assemblies(_)
Assemblies(i) ==
    IF i = 0 THEN { << >> }
    ELSE IF i = 1 THEN { << S_path[1] >> }
    ELSE { p \o g \o << S_path[i] >> :
             p \in Assemblies(i - 1), g \in Bridges(S_path[i - 1], S_path[i]) }

C22_FallbackAssembly ==
    pc = "fallback"
        => /\ use_shortest_path
           /\ ~is_path_subsequence_of_path(S_path, tgt)
           /\ obs_i <= Len(S_path)
           /\ complete_path \in Assemblies(obs_i)

\* the whole sparse path is assembled, with two links inserted for one pair
C22_Witness ==
    /\ pc = "fallback"
    /\ obs_i = Len(S_path)
    /\ Len(S_path) = 2
    /\ Len(complete_path) = 4
    /\ complete_path[1] = S_path[1]
    /\ complete_path[4] = S_path[2]

\* C23 as stated: on the 4-node cycle with sparse observation [0,3] and segment
\* 2's downstream adjacency empty, greedy decoding ends with the committed path
\* exactly [0,1].
C23_Original ==
    ( /\ Returned
      /\ network = Cycle4Corrupted
      /\ S_path = << 0, 3 >> )
    => tgt = << 0, 1 >>

\* C23 as amended: in that scenario segment 2 is committed too, being in the
\* adjacency of 1; the dead end is met at 2.  With a predictor that is positive
\* on the admissible candidates and max_len >= 4 the loop breaks with the
\* committed path exactly [0,1,2]; for any predictor and budget the committed
\* path is a non-empty prefix of [0,1,2], and 3 is never reached.
C23_DeadEndAtTwo ==
    ( /\ Returned
      /\ network = Cycle4Corrupted
      /\ S_path = << 0, 3 >> )
    => /\ tgt \in { << 0 >>, << 0, 1 >>, << 0, 1, 2 >> }
       /\ (model = "uniform" /\ max_len >= 4)
             => /\ tgt = << 0, 1, 2 >>
                /\ current_step = 4

C23_Witness ==
    /\ Returned
    /\ network = Cycle4Corrupted
    /\ S_path = << 0, 3 >>
    /\ model = "uniform"
    /\ max_len = MaxLen
    /\ current_step < max_len
    /\ tgt = << 0, 1, 2 >>

\* C24: in the encoded sequence there is exactly one mask token between two
\* consecutive observed links a, b when b is not in a's downstream adjacency
\* (also when a has no recorded adjacency) and none when it is; no mask token
\* stands anywhere else, so the content before the padding has
\* len(S_path) + number of non-adjacent pairs + 2 positions.
NonAdjacentPairs ==
    { k \in 1..(Len(S_path) - 1) :
        ~( /\ S_path[k] \in DOMAIN network.neighbor_links_O
           /\ InSeq(S_path[k + 1], network.neighbor_links_O[S_path[k]]) ) }

\* the position of the k-th observed link in the encoded sequence
PositionOf(k) == k + 1 + Cardinality({ j \in NonAdjacentPairs : j < k })

C24_MaskTokens ==
    Encoded
        => LET ids == TokenIds(ret)
               n == Len(S_path) + Cardinality(NonAdjacentPairs) + 2
           IN  /\ Len(ids) >= n
               /\ ids[1] = token_indexs["bos"]
               /\ ids[n] = token_indexs["eos"]
               /\ \A k \in 1..Len(S_path) : ids[PositionOf(k)] = S_path[k]
               /\ \A k \in NonAdjacentPairs : ids[PositionOf(k) + 1] = token_indexs["mos"]
               /\ Cardinality({ i \in 1..Len(ids) : ids[i] = token_indexs["mos"] })
                     = Cardinality(NonAdjacentPairs)
               /\ \A i \in (n + 1)..Len(ids) : ids[i] = token_indexs["pos"]

\* three observed links: an adjacent pair, and a pair whose first link has no
\* recorded adjacency
C24_Witness ==
    /\ Encoded
    /\ Len(S_path) = 3
    /\ NonAdjacentPairs = { 2 }
    /\ S_path[2] \notin DOMAIN network.neighbor_links_O
    /\ max_len > Len(S_path) + 3
    /\ Len(ret) = max_len

\* C25: for a ground-truth path with len + 2 <= max_len the target is begin,
\* the path, end, and pad up to max_len; for a batch of such paths the training
\* input is the target without its last position and the label the target
\* without its first, both of max_len - 1 positions, so that label[i] is the
\* token that follows input[i].
Fits(r) == Len(args.GT_paths[r]) + 2 <= max_len

ExpectedTarget(r) ==
    LET path == args.GT_paths[r]
    IN  [ i \in 1..max_len |->
            IF i = 1 THEN token_indexs["bos"]
            ELSE IF i <= Len(path) + 1 THEN path[i - 1]
            ELSE IF i = Len(path) + 2 THEN token_indexs["eos"]
            ELSE token_indexs["pos"] ]

C25_ShiftedTarget ==
    /\ (call = "create_sequence_target" /\ Fits(1)) => ret = ExpectedTarget(1)
    /\ (call = "_create_samples_from_dict" /\ Fits(1) /\ Fits(2))
          => /\ DOMAIN ret = { "path_tgts", "path_tgts_y" }
             /\ \A r \in 1..2 :
                  /\ Len(ret.path_tgts[r]) = max_len - 1
                  /\ Len(ret.path_tgts_y[r]) = max_len - 1
                  /\ \A i \in 1..(max_len - 1) :
                       /\ ret.path_tgts[r][i] = ExpectedTarget(r)[i]
                       /\ ret.path_tgts_y[r][i] = ExpectedTarget(r)[i + 1]

\* a batch of a longest path, with one pad, and a one-link path
C25_Witness ==
    /\ call = "_create_samples_from_dict"
    /\ max_len = MaxSparseLen + 3
    /\ Len(args.GT_paths[1]) = MaxSparseLen
    /\ Len(args.GT_paths[2]) = 1
    /\ DOMAIN ret = { "path_tgts", "path_tgts_y" }
    /\ Last(ret.path_tgts_y[1]) = token_indexs["pos"]
    /\ Last(ret.path_tgts[1]) = token_indexs["eos"]

\* the cost of aligning the positions kept_a of a with the positions kept_b of
\* b, in order: unaligned positions are deleted or inserted, unequal pairs
\* substituted
AlignmentCost(a, b, kept_a, kept_b) ==
    (Len(a) - Len(kept_a)) + (Len(b) - Len(kept_b))
        + Cardinality({ k \in 1..Len(kept_a) : a[kept_a[k]] # b[kept_b[k]] })

\* the increasing sequences of positions of a sequence of length n
Kept(n) == { SortedSeq(I) : I \in SUBSET (1..n) }

\* the least cost over all alignments
EditDistance(a, b) ==
    LET kept_as == Kept(Len(a))
        kept_bs == Kept(Len(b))
        costs == { AlignmentCost(a, b, pq[1], pq[2]) :
                     pq \in { x \in kept_as \X kept_bs : Len(x[1]) = Len(x[2]) } }
    IN  CHOOSE c \in costs : \A d \in costs : c <= d

\* C26: levenshtein_distance(a, b) is the unit-cost edit distance, the least
\* number of insertions, deletions and substitutions that turn a into b, for
\* all sequences, the empty ones included; calculate_path_ed is the sum over
\* the hypotheses of mass * min(distance / len(ground truth), 1).  For ground
\* truth (0,1,2) and the hypotheses (0,1,2) with 0.6 and (0,2) with 0.4 the
\* distance of (0,2) is 1 and the value 0.6 * 0 + 0.4 * 1/3.
C26_ClassicEditDistance ==
    /\ call = "levenshtein_distance" => ret = EditDistance(args.path1, args.path2)
    /\ (call = "calculate_path_ed" /\ args.path1 # << >>)
          => LET normalized == MinOne(Rat(EditDistance(args.path1, args.path2),
                                          Len(args.path1)))
             IN  IF "prob" \in DOMAIN args
                 THEN RatEq(ret, RatMul(args.prob, normalized))
                 ELSE RatEq(ret, normalized)

C26_Witness ==
    /\ call = "calculate_path_ed"
    /\ args = [ path1 |-> << 0, 1, 2 >>, path2 |-> << 0, 2 >>, prob |-> Rat(2, 5) ]
    /\ levenshtein_distance(args.path1, args.path2) = 1
    /\ RatEq(ret, Rat(2, 15))

\* the total of LENGTH over a set of links, each link once
RECURSIVE LengthOfSet(_, _)
LengthOfSet(S, LENGTH) ==
    IF S = {} THEN 0
    ELSE LET l == CHOOSE x \in S : TRUE
         IN  LENGTH[l] + LengthOfSet(S \ { l }, LENGTH)

\* the total of LENGTH over a path, each occurrence counted
RECURSIVE LengthOfPath(_, _)
LengthOfPath(path, LENGTH) ==
    IF path = << >> THEN 0
    ELSE LENGTH[Last(path)] + LengthOfPath(SubSeq(path, 1, Len(path) - 1), LENGTH)

\* mass * matched length of the hypotheses, summed, over a common denominator
RECURSIVE WeightedMatched(_, _, _)
WeightedMatched(gt_path, entries, LENGTH) ==
    IF entries = {} THEN Zero
    ELSE LET e == CHOOSE x \in entries : TRUE
         IN  RatAdd(RatMul(e.prob,
                           Rat(LengthOfSet(Range(e.path) \cap Range(gt_path), LENGTH), 1)),
                    WeightedMatched(gt_path, entries \ { e }, LENGTH))

\* the hypotheses a TLLA call was made with, and its ground truth
TllaHypotheses ==
    IF "prob" \in DOMAIN args
    THEN TwoHypotheses(args.all_path_probabilities, args.prob)
    ELSE args.all_path_probabilities[args.path_i]

TllaCalled == call \in { "calculate_path_tlla", "calculate_path_tlla, two hypotheses" }

C28_AnchorIndex ==
    (pc \in { "decode", "extract" } /\ Len(tgt) >= 2)
        => /\ 1 <= s_path_idx
           /\ s_path_idx <= Len(S_path)
           /\ \A k \in 0..s_path_idx :
                 is_path_subsequence_of_path(SubSeq(S_path, 1, k), tgt)
           /\ \A k \in (s_path_idx + 1)..Len(S_path) :
                 ~is_path_subsequence_of_path(SubSeq(S_path, 1, k), tgt)
           /\ is_path_subsequence_of_path(S_path, tgt) <=> s_path_idx = Len(S_path)
           /\ ~(s_path_idx >= Len(S_path) /\ ~is_path_subsequence_of_path(S_path, tgt))

\* two anchors reached, the third still ahead, with links chosen by the model
\* in between
C28_Witness ==
    /\ pc = "decode"
    /\ model = "learned"
    /\ Len(S_path) = 3
    /\ s_path_idx = 2
    /\ Len(tgt) >= 5
    /\ ~is_path_subsequence_of_path(S_path, tgt)

\* each link after the first is in the recorded downstream adjacency of the
\* link before it
Contiguous(path) ==
    \A k \in 1..(Len(path) - 1) :
        /\ path[k] \in DOMAIN network.neighbor_links_O
        /\ InSeq(path[k + 1], network.neighbor_links_O[path[k]])

\* C29: every path returned by greedy decoding, the fallback apart, is
\* contiguous in the graph, each link after the first being in the downstream
\* adjacency of the link before it, and holds no reserved token (begin, end,
\* mask, pad): all its elements are link ids.
C29_GreedyContiguous ==
    (Returned /\ ~GreedyFailed)
        => /\ path_probability = { [ path |-> tgt, prob |-> 1 ] }
           /\ \A e \in path_probability :
                /\ Contiguous(e.path)
                /\ \A k \in 1..Len(e.path) :
                     /\ e.path[k] \in Links
                     /\ e.path[k] \notin ControlTokens

\* a greedy path with links the model chose between the observations
C29_Witness ==
    /\ Returned
    /\ ~GreedyFailed
    /\ model = "learned"
    /\ Len(S_path) >= 2
    /\ Len(tgt) >= Len(S_path) + 2
    /\ path_probability = { [ path |-> tgt, prob |-> 1 ] }

\* C30: every entry of the result, from greedy decoding or from the fallback,
\* is a path that starts with the first observed link and ends with the last
\* observed link; and greedy decoding appends nothing after the last observed
\* link: once the committed sequence contains all observations its last
\* element is the last observed link.
C30_Endpoints ==
    /\ \A e \in path_probability :
         /\ Len(e.path) > 0
         /\ e.path[1] = S_path[1]
         /\ Last(e.path) = Last(S_path)
    /\ (pc \in { "decode", "extract" } /\ is_path_subsequence_of_path(S_path, tgt))
           => Last(tgt) = Last(S_path)

\* a fallback result with links stitched in between the observations
C30_Witness ==
    /\ Returned
    /\ GreedyFailed
    /\ Len(S_path) >= 2
    /\ \E e \in path_probability : e.path = complete_path /\ Len(e.path) > Len(S_path)

====
